---- MODULE Spec2Model ----
(***************************************************************************)
(* Model of the nand2tetris suite's two execution engines: the Hack CPU    *)
(* engine (CPUEngine over CPUMemory) and the VM engine (VMEngine over      *)
(* VMMemory).  One behaviour drives one engine; the engine is chosen in    *)
(* Init.  Public operations whose body is a loop (run, run_for, step_over, *)
(* step_out) are split into a begin step and one step per loop iteration   *)
(* so that pause(), which the headers allow from another thread, can       *)
(* interleave with them.                                                   *)
(***************************************************************************)
EXTENDS Integers, Sequences, FiniteSets, TLC

VARIABLES
    engine,            \* "vm" or "cpu": which engine this behaviour drives
    program_,          \* VMEngine::program_ (VM); unused for the CPU
    entry_point_,      \* VMEngine::entry_point_
    memory_,           \* VMEngine::memory_ / CPUEngine::memory_
    a_register_,       \* CPUEngine::a_register_
    d_register_,       \* CPUEngine::d_register_
    pc_,               \* program counter of the engine
    state_,            \* run state of the engine
    pause_reason_,     \* pause reason of the engine
    pause_requested_,  \* the cooperative pause flag
    pause_raced,       \* the flag was stored by pause() while a call was in flight
    stats_,            \* statistics counters
    breakpoints_,      \* breakpoint set
    error_message_,    \* "" or the kind of the last error
    error_location_,   \* PC recorded with the last error
    op,                \* public call in flight: its name and locals
    last,              \* last completed public call: its name and returned state
    clobbered,         \* history: the program overwrote a frame word, LCL or ARG
    source_map_,       \* JackDebugger::source_map_: the MAP entries, in file order
    jack_breakpoints_, \* JackDebugger::jack_breakpoints_: set of <<file, line>>
    jack_pause_reason_,\* JackDebugger::jack_pause_reason_
    seq_,              \* a built-in sequential chip: its kind, pins and state
    seq_tick_,         \* history: the pins and the state at the last tick, and what followed
    pin_,              \* HDLChip::pins_[name] of one pin: the set of the bits set in the int64_t
    pin_write_,        \* history: the last set_pin_bits call and the pin before it
    screen_written_,   \* history: a screen word was written since the dirty flag was last cleared
    popped_,           \* history: the last pop of a straight-line run and the memory before it
    jack_stats_,       \* JackDebugger::jack_stats_
    jop,               \* JackDebugger call in flight: its name and locals
    jlast,             \* last completed JackDebugger call: its name and result
    def_,              \* HDLChip::def_: the chip definition
    input_mappings_,   \* HDLChip::input_mappings_
    output_mappings_,  \* HDLChip::output_mappings_
    eval_order_,       \* HDLChip::eval_order_: part indices, from 0
    chip_state,        \* "defined", "constructed", or "threw" (the constructor threw)
    pins_,             \* HDLChip::pins_: the value of every pin and internal wire
    sub_chips_,        \* HDLChip::sub_chips_: the pins of every part, in source order
    evals_,            \* history: eval() calls since the pins were last set, and
                       \* the output pins as the call before the last left them
    commands_,         \* TstRunner::commands_
    pos_,              \* TstRunner::pos_
    output_,           \* TstRunner::output_, as its lines
    output_row_,       \* TstRunner::output_row_
    output_columns_,   \* TstRunner::output_columns_
    compare_lines_,    \* TstRunner::compare_lines_
    comparison_error_, \* TstRunner::comparison_error_: <<>> if empty
    chip_,             \* TstRunner::chip_: <<>> if null, else the pins of the chip
    top,               \* TstRunner call in flight
    tlast,             \* history: what the last TstRunner call did
    hdl_state_         \* HDLEngine::state_ of the engine that owns the runner

\* the Jack debugger, which drives a VM engine of its own
jackVars == <<source_map_, jack_breakpoints_, jack_pause_reason_, jack_stats_, jop, jlast>>

\* what lies outside the engine: no operation of an engine touches it
\* a user-defined HDL chip under construction
hdlVars == <<def_, input_mappings_, output_mappings_, eval_order_, chip_state,
             pins_, sub_chips_, evals_>>

\* the .tst runner
tstVars == <<commands_, pos_, output_, output_row_, output_columns_, compare_lines_,
             comparison_error_, chip_, top, tlast, hdl_state_>>

\* the Jack debugger, the HDL chip and the .tst runner
hosts == <<jackVars, hdlVars, tstVars>>

\* history of the straight-line VM run
segVars == <<popped_>>

\* history of the operations on a CPUMemory
memVars == <<screen_written_>>

\* one pin of an HDL chip and the history of its writes
pinVars == <<pin_, pin_write_>>

\* the objects driven on their own: VM segments, CPUMemory, a pin
\* a built-in sequential chip and the history of its clock
seqVars == <<seq_, seq_tick_>>

units == <<segVars, memVars, pinVars, seqVars>>

outside == <<hosts, units>>

vars == <<engine, program_, entry_point_, memory_, a_register_, d_register_, pc_,
          state_, pause_reason_, pause_requested_, pause_raced, stats_,
          breakpoints_, error_message_, error_location_, op, last, clobbered,
          outside>>

-----------------------------------------------------------------------------
(* Bounds of the model *)

\* instructions executed since the last load/reset before the model stops stepping
MaxInstr == 10
\* largest instruction budget handed to run_for
MaxRunFor == 2
\* size of the set of Jack breakpoints the host builds
MaxJackBreakpoints == 2

-----------------------------------------------------------------------------
(* Words and the memory map *)

WordMod == 65536
\* stands for the largest size_t, 2^64 - 1: TLC integers have 32 bits, and every
\* call-stack depth is below both
SIZE_MAX == 2147483647

ToWord(x) == x % WordMod

\* static_cast<int16_t>(w)
ToSigned(w) == IF w >= 32768 THEN w - WordMod ELSE w

SP == 0
LCL == 1
ARG == 2
THIS == 3
THAT == 4
TEMP_BASE == 5
TEMP_SIZE == 8
STATIC_BASE == 16
STACK_BASE == 256
STACK_MAX == 2047
RAM_SIZE == 32768

\* ram_ is kept sparse: cells that hold 0 (the value after fill(0)) are absent
Rd(ram, a) == IF a \in DOMAIN ram THEN ram[a] ELSE 0

Wr(ram, a, v) ==
    IF v = 0
    THEN [x \in (DOMAIN ram) \ {a} |-> ram[x]]
    ELSE [x \in (DOMAIN ram) \cup {a} |-> IF x = a THEN v ELSE ram[x]]

EmptyRam == [x \in {} |-> 0]

\* ram_[i] on the std::array without a bounds check: an index outside the
\* array is undefined behaviour; u is the word such a read produces
InRam(i) == i >= 0 /\ i < RAM_SIZE
RawRd(ram, i, u) == IF InRam(i) THEN Rd(ram, i) ELSE u
RawWr(ram, i, v) == IF InRam(i) THEN Wr(ram, i, v) ELSE ram

-----------------------------------------------------------------------------
(* Bitwise operations on 16-bit words *)

RECURSIVE BitAnd(_, _, _)
BitAnd(x, y, n) ==
    IF n = 0 THEN 0
    ELSE (IF x % 2 = 1 /\ y % 2 = 1 THEN 1 ELSE 0) + 2 * BitAnd(x \div 2, y \div 2, n - 1)

RECURSIVE BitOr(_, _, _)
BitOr(x, y, n) ==
    IF n = 0 THEN 0
    ELSE (IF x % 2 = 1 \/ y % 2 = 1 THEN 1 ELSE 0) + 2 * BitOr(x \div 2, y \div 2, n - 1)

And16(x, y) == BitAnd(x, y, 16)
Or16(x, y) == BitOr(x, y, 16)
Not16(x) == 65535 - x

-----------------------------------------------------------------------------
(* VMMemory.  A memory value is the record                                 *)
(*   [ram_, call_stack_, static_bases_, next_static_address_].             *)
(* Operations that can throw return [ok, m, v, err]: m is the memory as    *)
(* the operation left it (writes made before a throw stay), v its result.  *)

NoStatics == [f \in {} |-> 0]

VMMemoryReset ==
    [ram_ |-> Wr(EmptyRam, SP, STACK_BASE),
     call_stack_ |-> <<>>,
     static_bases_ |-> NoStatics,
     next_static_address_ |-> STATIC_BASE]

Ok(m, v) == [ok |-> TRUE, m |-> m, v |-> v, err |-> ""]
Throw(m, e) == [ok |-> FALSE, m |-> m, v |-> 0, err |-> e]

GetSP(m) == Rd(m.ram_, SP)
GetLCL(m) == Rd(m.ram_, LCL)
GetARG(m) == Rd(m.ram_, ARG)
GetTHIS(m) == Rd(m.ram_, THIS)
GetTHAT(m) == Rd(m.ram_, THAT)

push(m, value) ==
    LET sp == GetSP(m) IN
    IF sp > STACK_MAX
    THEN Throw(m, "Stack overflow")
    ELSE Ok([m EXCEPT !.ram_ = Wr(Wr(@, sp, value), SP, ToWord(sp + 1))], 0)

\* pop reading the top word and leaving SP where it was
pop_keep_sp(m, u) ==
    LET sp == GetSP(m) IN
    IF sp <= STACK_BASE
    THEN Throw(m, "Stack underflow")
    ELSE Ok(m, RawRd(m.ram_, sp - 1, u))

pop(m, u) ==
    LET sp == GetSP(m) IN
    IF sp <= STACK_BASE
    THEN Throw(m, "Stack underflow")
    ELSE LET ram1 == Wr(m.ram_, SP, sp - 1)
         IN  Ok([m EXCEPT !.ram_ = ram1], RawRd(ram1, sp - 1, u))

\* returns [ok, v, err] with v the address, truncated to uint16_t
calculate_address(m, segment, index, file_name) ==
    CASE segment = "local"    -> [ok |-> TRUE, v |-> ToWord(GetLCL(m) + index), err |-> ""]
      [] segment = "argument" -> [ok |-> TRUE, v |-> ToWord(GetARG(m) + index), err |-> ""]
      [] segment = "this"     -> [ok |-> TRUE, v |-> ToWord(GetTHIS(m) + index), err |-> ""]
      [] segment = "that"     -> [ok |-> TRUE, v |-> ToWord(GetTHAT(m) + index), err |-> ""]
      [] segment = "temp"     ->
            IF index >= TEMP_SIZE
            THEN [ok |-> FALSE, v |-> 0, err |-> "Temp segment index out of bounds"]
            ELSE [ok |-> TRUE, v |-> TEMP_BASE + index, err |-> ""]
      [] segment = "static"   ->
            IF file_name \in DOMAIN m.static_bases_
            THEN [ok |-> TRUE, v |-> ToWord(m.static_bases_[file_name] + index), err |-> ""]
            ELSE [ok |-> FALSE, v |-> 0, err |-> "Static segment not initialized"]
      [] segment = "pointer"  ->
            IF index > 1
            THEN [ok |-> FALSE, v |-> 0, err |-> "Pointer segment index out of bounds"]
            ELSE [ok |-> TRUE, v |-> THIS + index, err |-> ""]
      [] OTHER -> [ok |-> FALSE, v |-> 0, err |-> "calculate_address called for constant segment"]

read_segment(m, segment, index, file_name, u) ==
    IF segment = "constant"
    THEN Ok(m, index)
    ELSE LET a == calculate_address(m, segment, index, file_name)
         IN  IF a.ok THEN Ok(m, RawRd(m.ram_, a.v, u)) ELSE Throw(m, a.err)

write_segment(m, segment, index, value, file_name) ==
    IF segment = "constant"
    THEN Throw(m, "Cannot write to constant segment")
    ELSE LET a == calculate_address(m, segment, index, file_name)
         IN  IF a.ok THEN Ok([m EXCEPT !.ram_ = RawWr(@, a.v, value)], 0)
             ELSE Throw(m, a.err)

\* get_static_base reserving 8 words per file instead of 16
get_static_base_stride_8(m, file_name) ==
    IF file_name \in DOMAIN m.static_bases_
    THEN Ok(m, m.static_bases_[file_name])
    ELSE IF m.next_static_address_ >= STACK_BASE
    THEN Throw(m, "Out of static variable space")
    ELSE Ok([m EXCEPT
               !.static_bases_ = [f \in (DOMAIN @) \cup {file_name} |->
                                     IF f = file_name THEN m.next_static_address_ ELSE @[f]],
               !.next_static_address_ = ToWord(@ + 8)],
            m.next_static_address_)

get_static_base(m, file_name) ==
    IF file_name \in DOMAIN m.static_bases_
    THEN Ok(m, m.static_bases_[file_name])
    ELSE IF m.next_static_address_ >= STACK_BASE
    THEN Throw(m, "Out of static variable space")
    ELSE Ok([m EXCEPT
               !.static_bases_ = [f \in (DOMAIN @) \cup {file_name} |->
                                     IF f = file_name THEN m.next_static_address_ ELSE @[f]],
               !.next_static_address_ = ToWord(@ + 16)],
            m.next_static_address_)

\* the writes ram_[a] = v of ws, applied in order
RECURSIVE WrSeq(_, _)
WrSeq(ram, ws) ==
    IF ws = <<>> THEN ram
    ELSE WrSeq(RawWr(ram, Head(ws)[1], Head(ws)[2]), Tail(ws))

\* old_sp is a history field (SP when the frame was pushed); no operation reads it
NewFrame(m, return_address, function_name, num_args, num_locals) ==
    [return_address |-> return_address,
     function_name |-> function_name,
     num_args |-> num_args,
     num_locals |-> num_locals,
     saved_lcl |-> GetLCL(m),
     saved_arg |-> GetARG(m),
     saved_this |-> GetTHIS(m),
     saved_that |-> GetTHAT(m),
     old_sp |-> GetSP(m)]

\* push_frame setting ARG to the caller's SP instead of the first argument
push_frame_arg_at_sp(m, return_address, function_name, num_args, num_locals) ==
    LET frame == NewFrame(m, return_address, function_name, num_args, num_locals)
        sp0 == GetSP(m)
        sp5 == ToWord(sp0 + 5)
        spN == ToWord(sp5 + num_locals)
        ram1 == WrSeq(m.ram_,
                  << <<sp0, ToWord(return_address)>>,
                     <<ToWord(sp0 + 1), frame.saved_lcl>>,
                     <<ToWord(sp0 + 2), frame.saved_arg>>,
                     <<ToWord(sp0 + 3), frame.saved_this>>,
                     <<ToWord(sp0 + 4), frame.saved_that>>,
                     <<ARG, sp0>>,
                     <<LCL, sp5>> >>)
        locals == { ToWord(sp5 + i) : i \in 0 .. (num_locals - 1) }
        ram2 == [x \in (DOMAIN ram1) \ locals |-> ram1[x]]
    IN  [m EXCEPT !.ram_ = Wr(ram2, SP, spN),
                  !.call_stack_ = Append(@, frame)]

\* push_frame recording in the shadow frame the pointers as they are after the
\* push instead of the caller's
push_frame_late(m, return_address, function_name, num_args, num_locals) ==
    LET frame == NewFrame(m, return_address, function_name, num_args, num_locals)
        sp0 == GetSP(m)
        sp5 == ToWord(sp0 + 5)
        spN == ToWord(sp5 + num_locals)
        ram1 == WrSeq(m.ram_,
                  << <<sp0, ToWord(return_address)>>,
                     <<ToWord(sp0 + 1), frame.saved_lcl>>,
                     <<ToWord(sp0 + 2), frame.saved_arg>>,
                     <<ToWord(sp0 + 3), frame.saved_this>>,
                     <<ToWord(sp0 + 4), frame.saved_that>>,
                     <<ARG, ToWord(sp5 - num_args - 5 + WordMod)>>,
                     <<LCL, sp5>> >>)
        locals == { ToWord(sp5 + i) : i \in 0 .. (num_locals - 1) }
        ram2 == [x \in (DOMAIN ram1) \ locals |-> ram1[x]]
        m2 == [m EXCEPT !.ram_ = Wr(ram2, SP, spN)]
    IN  [m2 EXCEPT !.call_stack_ =
            Append(@, [NewFrame(m2, return_address, function_name, num_args, num_locals)
                          EXCEPT !.old_sp = sp0])]

push_frame(m, return_address, function_name, num_args, num_locals) ==
    LET frame == NewFrame(m, return_address, function_name, num_args, num_locals)
        sp0 == GetSP(m)
        sp5 == ToWord(sp0 + 5)
        spN == ToWord(sp5 + num_locals)
        ram1 == WrSeq(m.ram_,
                  << <<sp0, ToWord(return_address)>>,
                     <<ToWord(sp0 + 1), frame.saved_lcl>>,
                     <<ToWord(sp0 + 2), frame.saved_arg>>,
                     <<ToWord(sp0 + 3), frame.saved_this>>,
                     <<ToWord(sp0 + 4), frame.saved_that>>,
                     <<ARG, ToWord(sp5 - num_args - 5 + WordMod)>>,
                     <<LCL, sp5>> >>)
        locals == { ToWord(sp5 + i) : i \in 0 .. (num_locals - 1) }
        ram2 == [x \in (DOMAIN ram1) \ locals |-> ram1[x]]
    IN  [m EXCEPT !.ram_ = Wr(ram2, SP, spN),
                  !.call_stack_ = Append(@, frame)]

\* pop_frame reading the return address after it has stored the return value
pop_frame_ret_after_write(m, return_value, u) ==
    IF m.call_stack_ = <<>>
    THEN Throw(m, "Attempted to return but no function is active")
    ELSE LET frame_ptr == GetLCL(m)
             arg_addr == GetARG(m)
             ram1 == Wr(m.ram_, THAT, RawRd(m.ram_, frame_ptr - 1, u))
             ram2 == Wr(ram1, THIS, RawRd(ram1, frame_ptr - 2, u))
             ram3 == Wr(ram2, ARG, RawRd(ram2, frame_ptr - 3, u))
             ram4 == Wr(ram3, LCL, RawRd(ram3, frame_ptr - 4, u))
             ram5 == RawWr(ram4, arg_addr, return_value)
             ret_addr == RawRd(ram5, frame_ptr - 5, u)
             ram6 == Wr(ram5, SP, ToWord(arg_addr + 1))
         IN  Ok([m EXCEPT !.ram_ = ram6,
                          !.call_stack_ = SubSeq(@, 1, Len(@) - 1)],
                ret_addr)

\* pop_frame leaving SP at ARG instead of ARG + 1
pop_frame_sp_at_arg(m, return_value, u) ==
    IF m.call_stack_ = <<>>
    THEN Throw(m, "Attempted to return but no function is active")
    ELSE LET frame_ptr == GetLCL(m)
             ret_addr == RawRd(m.ram_, frame_ptr - 5, u)
             arg_addr == GetARG(m)
             ram1 == Wr(m.ram_, THAT, RawRd(m.ram_, frame_ptr - 1, u))
             ram2 == Wr(ram1, THIS, RawRd(ram1, frame_ptr - 2, u))
             ram3 == Wr(ram2, ARG, RawRd(ram2, frame_ptr - 3, u))
             ram4 == Wr(ram3, LCL, RawRd(ram3, frame_ptr - 4, u))
             ram5 == RawWr(ram4, arg_addr, return_value)
             ram6 == Wr(ram5, SP, arg_addr)
         IN  Ok([m EXCEPT !.ram_ = ram6,
                          !.call_stack_ = SubSeq(@, 1, Len(@) - 1)],
                ret_addr)

pop_frame(m, return_value, u) ==
    IF m.call_stack_ = <<>>
    THEN Throw(m, "Attempted to return but no function is active")
    ELSE LET frame_ptr == GetLCL(m)
             ret_addr == RawRd(m.ram_, frame_ptr - 5, u)
             arg_addr == GetARG(m)
             ram1 == Wr(m.ram_, THAT, RawRd(m.ram_, frame_ptr - 1, u))
             ram2 == Wr(ram1, THIS, RawRd(ram1, frame_ptr - 2, u))
             ram3 == Wr(ram2, ARG, RawRd(ram2, frame_ptr - 3, u))
             ram4 == Wr(ram3, LCL, RawRd(ram3, frame_ptr - 4, u))
             ram5 == RawWr(ram4, arg_addr, return_value)
             ram6 == Wr(ram5, SP, ToWord(arg_addr + 1))
         IN  Ok([m EXCEPT !.ram_ = ram6,
                          !.call_stack_ = SubSeq(@, 1, Len(@) - 1)],
                ret_addr)

current_function(m) ==
    IF m.call_stack_ = <<>> THEN "" ELSE m.call_stack_[Len(m.call_stack_)].function_name

-----------------------------------------------------------------------------
(* VM commands and programs (VMParser).  A scoped label name "F$L" is the  *)
(* pair <<F, L>>; a label outside any function is <<"", L>>.               *)

Arithmetic(o) == [t |-> "arithmetic", operation |-> o]
Push(seg, i, f) == [t |-> "push", segment |-> seg, index |-> i, file_name |-> f]
Pop(seg, i, f) == [t |-> "pop", segment |-> seg, index |-> i, file_name |-> f]
Label(n) == [t |-> "label", label_name |-> n]
Goto(n) == [t |-> "goto", label_name |-> n]
IfGoto(n) == [t |-> "if-goto", label_name |-> n]
Function(n, k) == [t |-> "function", function_name |-> n, num_locals |-> k]
Call(n, k) == [t |-> "call", function_name |-> n, num_args |-> k]
Return == [t |-> "return"]

\* current_function_ of the parser when it reads command number i (1-based)
RECURSIVE ParserFunction(_, _)
ParserFunction(cmds, i) ==
    IF i = 0 THEN ""
    ELSE IF cmds[i].t = "function" THEN cmds[i].function_name
    ELSE ParserFunction(cmds, i - 1)

make_scoped_label(cmds, i) == <<ParserFunction(cmds, i), cmds[i].label_name>>

\* VMParser::get_program after parse_string (files = <<>>) or parse_file
\* (files = the paths read): positions are 0-based command indices
get_program(cmds, files) ==
    LET labelIdx == { i \in 1 .. Len(cmds) : cmds[i].t = "label" }
        funcIdx == { i \in 1 .. Len(cmds) : cmds[i].t = "function" }
    IN  [commands |-> cmds,
         label_positions |->
             [n \in { make_scoped_label(cmds, i) : i \in labelIdx } |->
                 (CHOOSE i \in labelIdx : make_scoped_label(cmds, i) = n) - 1],
         function_entry_points |->
             [n \in { cmds[i].function_name : i \in funcIdx } |->
                 (CHOOSE i \in funcIdx : cmds[i].function_name = n) - 1],
         source_files |-> files]

lookup_label(prog, m, label_name) ==
    LET current_func == current_function(m) IN
    IF current_func # "" /\ <<current_func, label_name>> \in DOMAIN prog.label_positions
    THEN [ok |-> TRUE, v |-> prog.label_positions[<<current_func, label_name>>], err |-> ""]
    ELSE IF <<"", label_name>> \in DOMAIN prog.label_positions
    THEN [ok |-> TRUE, v |-> prog.label_positions[<<"", label_name>>], err |-> ""]
    ELSE [ok |-> FALSE, v |-> 0, err |-> "Undefined label"]

lookup_function(prog, function_name) ==
    IF function_name \in DOMAIN prog.function_entry_points
    THEN [ok |-> TRUE, v |-> prog.function_entry_points[function_name], err |-> ""]
    ELSE [ok |-> FALSE, v |-> 0, err |-> "Undefined function"]

\* num_locals of the function command at index function_pc, 0 if there is none
NumLocalsAt(prog, function_pc) ==
    IF function_pc < Len(prog.commands) /\ prog.commands[function_pc + 1].t = "function"
    THEN prog.commands[function_pc + 1].num_locals
    ELSE 0

-----------------------------------------------------------------------------
(* VMEngine command execution.  An execution state is                      *)
(*   [ok, m, pc, stats, halted, err]: ok is FALSE when a RuntimeError      *)
(* left the handler; m, pc and stats are as the handler left them.         *)

VMStatsReset ==
    [instructions_executed |-> 0, push_count |-> 0, pop_count |-> 0,
     arithmetic_count |-> 0, call_count |-> 0, return_count |-> 0]

Done(m, pc, stats) ==
    [ok |-> TRUE, m |-> m, pc |-> pc, stats |-> stats, halted |-> FALSE, err |-> ""]
Failed(m, pc, stats, e) ==
    [ok |-> FALSE, m |-> m, pc |-> pc, stats |-> stats, halted |-> FALSE, err |-> e]

IsBinary(o) == o \in {"add", "sub", "eq", "gt", "lt", "and", "or"}

ArithmeticResult(o, x, y) ==
    CASE o = "add" -> ToWord(ToSigned(x) + ToSigned(y) + 2 * WordMod)
      [] o = "sub" -> ToWord(ToSigned(x) - ToSigned(y) + 2 * WordMod)
      [] o = "neg" -> ToWord(WordMod - ToSigned(y))
      [] o = "eq"  -> IF x = y THEN 65535 ELSE 0
      [] o = "gt"  -> IF ToSigned(x) > ToSigned(y) THEN 65535 ELSE 0
      [] o = "lt"  -> IF ToSigned(x) < ToSigned(y) THEN 65535 ELSE 0
      [] o = "and" -> And16(x, y)
      [] o = "or"  -> Or16(x, y)
      [] o = "not" -> Not16(y)

execute_arithmetic(m, pc, stats, cmd, u) ==
    LET st == [stats EXCEPT !.arithmetic_count = @ + 1]
        py == pop(m, u)
    IN  IF ~py.ok THEN Failed(py.m, pc, st, py.err)
        ELSE IF IsBinary(cmd.operation)
        THEN LET px == pop(py.m, u) IN
             IF ~px.ok THEN Failed(px.m, pc, st, px.err)
             ELSE LET r == push(px.m, ArithmeticResult(cmd.operation, px.v, py.v)) IN
                  IF ~r.ok THEN Failed(r.m, pc, st, r.err) ELSE Done(r.m, pc + 1, st)
        ELSE LET r == push(py.m, ArithmeticResult(cmd.operation, 0, py.v)) IN
             IF ~r.ok THEN Failed(r.m, pc, st, r.err) ELSE Done(r.m, pc + 1, st)

execute_push(m, pc, stats, cmd, u) ==
    LET st == [stats EXCEPT !.push_count = @ + 1]
        rd == read_segment(m, cmd.segment, cmd.index, cmd.file_name, u)
    IN  IF ~rd.ok THEN Failed(rd.m, pc, st, rd.err)
        ELSE LET r == push(rd.m, rd.v) IN
             IF ~r.ok THEN Failed(r.m, pc, st, r.err) ELSE Done(r.m, pc + 1, st)

execute_pop(m, pc, stats, cmd, u) ==
    LET st == [stats EXCEPT !.pop_count = @ + 1]
        p == pop(m, u)
    IN  IF ~p.ok THEN Failed(p.m, pc, st, p.err)
        ELSE LET w == write_segment(p.m, cmd.segment, cmd.index, p.v, cmd.file_name) IN
             IF ~w.ok THEN Failed(w.m, pc, st, w.err) ELSE Done(w.m, pc + 1, st)

execute_label(m, pc, stats) == Done(m, pc + 1, stats)

execute_goto(prog, m, pc, stats, cmd) ==
    LET l == lookup_label(prog, m, cmd.label_name) IN
    IF ~l.ok THEN Failed(m, pc, stats, l.err) ELSE Done(m, l.v, stats)

execute_if_goto(prog, m, pc, stats, cmd, u) ==
    LET p == pop(m, u) IN
    IF ~p.ok THEN Failed(p.m, pc, stats, p.err)
    ELSE IF p.v # 0
    THEN LET l == lookup_label(prog, p.m, cmd.label_name) IN
         IF ~l.ok THEN Failed(p.m, pc, stats, l.err) ELSE Done(p.m, l.v, stats)
    ELSE Done(p.m, pc + 1, stats)

execute_function(m, pc, stats) == Done(m, pc + 1, stats)

execute_call(prog, m, pc, stats, cmd) ==
    LET st == [stats EXCEPT !.call_count = @ + 1]
        f == lookup_function(prog, cmd.function_name)
    IN  IF ~f.ok THEN Failed(m, pc, st, f.err)
        ELSE Done(push_frame(m, pc + 1, cmd.function_name, cmd.num_args,
                             NumLocalsAt(prog, f.v)),
                  f.v, st)

execute_return(m, pc, stats, u) ==
    LET st == [stats EXCEPT !.return_count = @ + 1]
        p == pop(m, u)
    IN  IF ~p.ok THEN Failed(p.m, pc, st, p.err)
        ELSE LET r == pop_frame(p.m, p.v, u) IN
             IF ~r.ok THEN Failed(r.m, pc, st, r.err)
             ELSE IF r.v = 0
             THEN [Done(r.m, pc, st) EXCEPT !.halted = TRUE]
             ELSE Done(r.m, r.v, st)

\* the std::visit dispatch of execute_command
Dispatch(prog, m, pc, stats, u) ==
    LET cmd == prog.commands[pc + 1] IN
    CASE cmd.t = "arithmetic" -> execute_arithmetic(m, pc, stats, cmd, u)
      [] cmd.t = "push"       -> execute_push(m, pc, stats, cmd, u)
      [] cmd.t = "pop"        -> execute_pop(m, pc, stats, cmd, u)
      [] cmd.t = "label"      -> execute_label(m, pc, stats)
      [] cmd.t = "goto"       -> execute_goto(prog, m, pc, stats, cmd)
      [] cmd.t = "if-goto"    -> execute_if_goto(prog, m, pc, stats, cmd, u)
      [] cmd.t = "function"   -> execute_function(m, pc, stats)
      [] cmd.t = "call"       -> execute_call(prog, m, pc, stats, cmd)
      [] cmd.t = "return"     -> execute_return(m, pc, stats, u)

-----------------------------------------------------------------------------
(* CPUMemory: the record [rom_, ram_, program_size_, screen_dirty_].       *)
(* rom_ holds the loaded words; every other ROM cell is 0 (rom_.fill(0)).  *)

SCREEN_BASE == 16384
SCREEN_SIZE == 8192

CPUMemoryReset ==
    [rom_ |-> <<>>, ram_ |-> EmptyRam, program_size_ |-> 0, screen_dirty_ |-> FALSE]

\* load_rom leaving program_size_ as it was
load_rom_keep_size(m, instructions) == [m EXCEPT !.rom_ = instructions]

load_rom(m, instructions) ==
    [m EXCEPT !.rom_ = instructions, !.program_size_ = Len(instructions)]

rom_size(m) == m.program_size_

cpu_read_ram(m, address) ==
    IF address >= RAM_SIZE THEN Throw(m, "Cannot read RAM") ELSE Ok(m, Rd(m.ram_, address))

\* write_ram without the screen tracking
cpu_write_ram_untracked(m, address, value) ==
    IF address >= RAM_SIZE THEN Throw(m, "Cannot write to RAM")
    ELSE Ok([m EXCEPT !.ram_ = Wr(@, address, value)], 0)

cpu_write_ram(m, address, value) ==
    IF address >= RAM_SIZE THEN Throw(m, "Cannot write to RAM")
    ELSE Ok([m EXCEPT !.ram_ = Wr(@, address, value),
                      !.screen_dirty_ = @ \/ (address >= SCREEN_BASE
                                              /\ address < SCREEN_BASE + SCREEN_SIZE)],
            0)

-----------------------------------------------------------------------------
(* CPUEngine: ALU, jump evaluation and the statistics record               *)

CPUStatsReset ==
    [instructions_executed |-> 0, a_instruction_count |-> 0, c_instruction_count |-> 0,
     memory_reads |-> 0, memory_writes |-> 0, jump_count |-> 0]

\* static_cast<Word>(static_cast<int16_t>(x)) for an int x of small magnitude
FromInt(x) == ToWord(x + 2 * WordMod)

\* [ok, v]: ok is FALSE for a comp code outside the switch (RuntimeError)
compute_alu(comp, d_val, am_val) ==
    LET d == ToSigned(d_val)
        am == ToSigned(am_val)
        c == comp % 64
    IN  CASE comp = 42 -> [ok |-> TRUE, v |-> 0]
          [] comp = 63 -> [ok |-> TRUE, v |-> 1]
          [] comp = 58 -> [ok |-> TRUE, v |-> FromInt(-1)]
          [] comp = 12 -> [ok |-> TRUE, v |-> FromInt(d)]
          [] comp = 13 -> [ok |-> TRUE, v |-> Not16(d_val)]
          [] comp = 15 -> [ok |-> TRUE, v |-> FromInt(-d)]
          [] comp = 31 -> [ok |-> TRUE, v |-> FromInt(d + 1)]
          [] comp = 14 -> [ok |-> TRUE, v |-> FromInt(d - 1)]
          [] c = 48 -> [ok |-> TRUE, v |-> FromInt(am)]
          [] c = 49 -> [ok |-> TRUE, v |-> Not16(am_val)]
          [] c = 51 -> [ok |-> TRUE, v |-> FromInt(-am)]
          [] c = 55 -> [ok |-> TRUE, v |-> FromInt(am + 1)]
          [] c = 50 -> [ok |-> TRUE, v |-> FromInt(am - 1)]
          [] c = 2  -> [ok |-> TRUE, v |-> FromInt(d + am)]
          [] c = 19 -> [ok |-> TRUE, v |-> FromInt(d - am)]
          [] c = 7  -> [ok |-> TRUE, v |-> FromInt(am - d)]
          [] c = 0  -> [ok |-> TRUE, v |-> And16(d_val, am_val)]
          [] c = 21 -> [ok |-> TRUE, v |-> Or16(d_val, am_val)]
          [] OTHER -> [ok |-> FALSE, v |-> 0]

should_jump(jump, alu_output) ==
    LET val == ToSigned(alu_output) IN
    IF jump = 0 THEN FALSE
    ELSE IF jump = 7 THEN TRUE
    ELSE \/ (val < 0 /\ (jump \div 4) % 2 = 1)
         \/ (val = 0 /\ (jump \div 2) % 2 = 1)
         \/ (val > 0 /\ jump % 2 = 1)

-----------------------------------------------------------------------------
(* The engine state both engines share, as one record, and the core step   *)
(* of each engine.  A core step returns [ret, e]: ret is the bool the      *)
(* function returns, e the engine state it leaves.                         *)

Eng ==
    [memory_ |-> memory_, a_register_ |-> a_register_, d_register_ |-> d_register_,
     pc_ |-> pc_, state_ |-> state_, pause_reason_ |-> pause_reason_,
     pause_requested_ |-> pause_requested_, stats_ |-> stats_,
     error_message_ |-> error_message_, error_location_ |-> error_location_]

SetEng(e) ==
    /\ memory_' = e.memory_
    /\ a_register_' = e.a_register_
    /\ d_register_' = e.d_register_
    /\ pc_' = e.pc_
    /\ state_' = e.state_
    /\ pause_reason_' = e.pause_reason_
    /\ pause_requested_' = e.pause_requested_
    /\ stats_' = e.stats_
    /\ error_message_' = e.error_message_
    /\ error_location_' = e.error_location_

\* what a read of pause_requested_ by the engine's thread can yield: a store
\* made by pause() while the call was in flight is unsynchronised (plain bool)
PauseReads ==
    IF pause_requested_ THEN (IF pause_raced THEN {TRUE, FALSE} ELSE {TRUE}) ELSE {FALSE}

\* words an out-of-bounds ram_ read can produce
UBWords == {0, 1}

\* the catch clause leaving error_location_ as it was
CatchError_no_location(e, err) ==
    [e EXCEPT !.error_message_ = err, !.state_ = "ERROR"]

CatchError(e, err) ==
    [e EXCEPT !.error_message_ = err, !.error_location_ = e.pc_, !.state_ = "ERROR"]

\* the end of the try block of execute_command, and its catch clause; x is what
\* the dispatched handler left
AfterDispatch(e, x) ==
    IF x.ok
    THEN [ret |-> TRUE,
          e |-> [e EXCEPT !.memory_ = x.m, !.pc_ = x.pc,
                          !.stats_ = [x.stats EXCEPT !.instructions_executed = @ + 1],
                          !.state_ = IF x.halted THEN "HALTED" ELSE @]]
    ELSE [ret |-> FALSE,
          e |-> CatchError([e EXCEPT !.memory_ = x.m, !.pc_ = x.pc,
                                     !.stats_ = x.stats], x.err)]

\* execute_command without its breakpoint check
execute_command_no_breakpoints(prog, bps, e, seen, u) ==
    IF e.pc_ >= Len(prog.commands)
    THEN [ret |-> FALSE, e |-> [e EXCEPT !.state_ = "HALTED"]]
    ELSE IF seen
    THEN [ret |-> FALSE,
          e |-> [e EXCEPT !.pause_requested_ = FALSE, !.state_ = "PAUSED",
                          !.pause_reason_ = "USER_REQUEST"]]
    ELSE AfterDispatch(e, Dispatch(prog, e.memory_, e.pc_, e.stats_, u))

\* VMEngine::execute_command
execute_command(prog, bps, e, seen, u) ==
    IF e.pc_ >= Len(prog.commands)
    THEN [ret |-> FALSE, e |-> [e EXCEPT !.state_ = "HALTED"]]
    ELSE IF seen
    THEN [ret |-> FALSE,
          e |-> [e EXCEPT !.pause_requested_ = FALSE, !.state_ = "PAUSED",
                          !.pause_reason_ = "USER_REQUEST"]]
    ELSE IF e.stats_.instructions_executed > 0 /\ e.pc_ \in bps
    THEN [ret |-> FALSE,
          e |-> [e EXCEPT !.state_ = "PAUSED", !.pause_reason_ = "BREAKPOINT"]]
    ELSE AfterDispatch(e, Dispatch(prog, e.memory_, e.pc_, e.stats_, u))

\* execute_instruction writing M at the A register as the instruction left it
CPUExecute_write_at_new_a(e) ==
    LET raw == e.memory_.rom_[e.pc_ + 1] IN
    IF raw < 32768
    THEN [ok |-> TRUE, err |-> "",
          e |-> [e EXCEPT !.a_register_ = raw % 32768, !.pc_ = ToWord(@ + 1),
                          !.stats_.a_instruction_count = @ + 1]]
    ELSE LET comp_bits == (raw \div 64) % 128
             dest_bits == (raw \div 8) % 8
             jump_bits == raw % 8
             rd == IF comp_bits >= 64 THEN cpu_read_ram(e.memory_, e.a_register_)
                   ELSE Ok(e.memory_, e.a_register_)
         IN  IF ~rd.ok THEN [ok |-> FALSE, err |-> rd.err, e |-> e]
             ELSE
             LET e1 == IF comp_bits >= 64
                       THEN [e EXCEPT !.stats_.memory_reads = @ + 1] ELSE e
                 alu == compute_alu(comp_bits, e.d_register_, rd.v)
             IN  IF ~alu.ok
                 THEN [ok |-> FALSE, err |-> "Invalid ALU computation code", e |-> e1]
                 ELSE
                 LET original_a == e.a_register_
                     e2 == [e1 EXCEPT
                              !.a_register_ = IF (dest_bits \div 4) % 2 = 1 THEN alu.v ELSE @,
                              !.d_register_ = IF (dest_bits \div 2) % 2 = 1 THEN alu.v ELSE @]
                     wr == IF dest_bits % 2 = 1
                           THEN cpu_write_ram(e2.memory_, e2.a_register_, alu.v)
                           ELSE Ok(e2.memory_, 0)
                 IN  IF ~wr.ok THEN [ok |-> FALSE, err |-> wr.err, e |-> e2]
                     ELSE
                     LET e3 == [e2 EXCEPT
                                  !.memory_ = wr.m,
                                  !.stats_.memory_writes =
                                      IF dest_bits % 2 = 1 THEN @ + 1 ELSE @]
                         e4 == IF should_jump(jump_bits, alu.v)
                               THEN [e3 EXCEPT !.pc_ = e3.a_register_,
                                               !.stats_.jump_count = @ + 1]
                               ELSE [e3 EXCEPT !.pc_ = ToWord(@ + 1)]
                     IN  [ok |-> TRUE, err |-> "",
                          e |-> [e4 EXCEPT !.stats_.c_instruction_count = @ + 1]]

\* the fetch/execute part of CPUEngine::execute_instruction (the try block
\* up to the increment of instructions_executed): [ok, e, err]
CPUExecute(e) ==
    LET raw == e.memory_.rom_[e.pc_ + 1] IN
    IF raw < 32768
    THEN [ok |-> TRUE, err |-> "",
          e |-> [e EXCEPT !.a_register_ = raw % 32768, !.pc_ = ToWord(@ + 1),
                          !.stats_.a_instruction_count = @ + 1]]
    ELSE LET comp_bits == (raw \div 64) % 128
             dest_bits == (raw \div 8) % 8
             jump_bits == raw % 8
             rd == IF comp_bits >= 64 THEN cpu_read_ram(e.memory_, e.a_register_)
                   ELSE Ok(e.memory_, e.a_register_)
         IN  IF ~rd.ok THEN [ok |-> FALSE, err |-> rd.err, e |-> e]
             ELSE
             LET e1 == IF comp_bits >= 64
                       THEN [e EXCEPT !.stats_.memory_reads = @ + 1] ELSE e
                 alu == compute_alu(comp_bits, e.d_register_, rd.v)
             IN  IF ~alu.ok
                 THEN [ok |-> FALSE, err |-> "Invalid ALU computation code", e |-> e1]
                 ELSE
                 LET original_a == e.a_register_
                     e2 == [e1 EXCEPT
                              !.a_register_ = IF (dest_bits \div 4) % 2 = 1 THEN alu.v ELSE @,
                              !.d_register_ = IF (dest_bits \div 2) % 2 = 1 THEN alu.v ELSE @]
                     wr == IF dest_bits % 2 = 1
                           THEN cpu_write_ram(e2.memory_, original_a, alu.v)
                           ELSE Ok(e2.memory_, 0)
                 IN  IF ~wr.ok THEN [ok |-> FALSE, err |-> wr.err, e |-> e2]
                     ELSE
                     LET e3 == [e2 EXCEPT
                                  !.memory_ = wr.m,
                                  !.stats_.memory_writes =
                                      IF dest_bits % 2 = 1 THEN @ + 1 ELSE @]
                         e4 == IF should_jump(jump_bits, alu.v)
                               THEN [e3 EXCEPT !.pc_ = e3.a_register_,
                                               !.stats_.jump_count = @ + 1]
                               ELSE [e3 EXCEPT !.pc_ = ToWord(@ + 1)]
                     IN  [ok |-> TRUE, err |-> "",
                          e |-> [e4 EXCEPT !.stats_.c_instruction_count = @ + 1]]

\* the end of the try block of execute_instruction, and its catch clause; x is
\* what the fetch/execute part left
AfterExecute(x) ==
    IF ~x.ok
    THEN [ret |-> FALSE, e |-> CatchError(x.e, x.err)]
    ELSE IF x.e.pc_ >= rom_size(x.e.memory_)
    THEN [ret |-> FALSE,
          e |-> [x.e EXCEPT !.stats_.instructions_executed = @ + 1, !.state_ = "HALTED"]]
    ELSE [ret |-> TRUE, e |-> [x.e EXCEPT !.stats_.instructions_executed = @ + 1]]

\* CPUEngine::execute_instruction
execute_instruction(bps, e, seen) ==
    IF e.pc_ >= rom_size(e.memory_)
    THEN [ret |-> FALSE, e |-> [e EXCEPT !.state_ = "HALTED"]]
    ELSE IF seen
    THEN [ret |-> FALSE,
          e |-> [e EXCEPT !.pause_requested_ = FALSE, !.state_ = "PAUSED",
                          !.pause_reason_ = "USER_REQUEST"]]
    ELSE IF e.stats_.instructions_executed > 0 /\ e.pc_ \in bps
    THEN [ret |-> FALSE,
          e |-> [e EXCEPT !.state_ = "PAUSED", !.pause_reason_ = "BREAKPOINT"]]
    ELSE AfterExecute(CPUExecute(e))

-----------------------------------------------------------------------------
(* Inputs: the programs the host may load, the entry points it may set,    *)
(* the breakpoint addresses it may use                                     *)

\* function call with two arguments, entered through the bootstrap frame
VMCallProgram ==
    << Function("Sys.init", 0),
       Push("constant", 7, "test"),
       Push("constant", 8, "test"),
       Call("Math.add", 2),
       Return,
       Function("Math.add", 0),
       Push("argument", 0, "test"),
       Push("argument", 1, "test"),
       Arithmetic("add"),
       Return >>

\* call without arguments; the callee has locals and moves THIS
VMNoArgProgram ==
    << Function("Main.main", 1),
       Call("Main.f", 0),
       Pop("local", 0, "test"),
       Return,
       Function("Main.f", 2),
       Push("constant", 3000, "test"),
       Pop("pointer", 0, "test"),
       Push("constant", 5, "test"),
       Return >>

\* the callee stores into its own frame (argument 2 is the saved LCL word)
VMClobberProgram ==
    << Function("Sys.init", 0),
       Push("constant", 1, "test"),
       Call("Bad.f", 1),
       Return,
       Function("Bad.f", 0),
       Push("constant", 9, "test"),
       Pop("argument", 2, "test"),
       Push("constant", 0, "test"),
       Return >>

\* no entry function: straight-line code that runs off the end
VMScriptProgram ==
    << Push("constant", 2, "test"),
       Push("constant", 3, "test"),
       Arithmetic("add") >>

\* no entry function: a loop that never ends
VMLoopProgram ==
    << Label("LOOP"),
       Push("constant", 1, "test"),
       Pop("temp", 0, "test"),
       Goto("LOOP") >>

\* an entry function whose locals do not fit in the stack region
VMBigFrameProgram ==
    << Function("Sys.init", 1800),
       Push("constant", 1, "test"),
       Return >>

\* load_string of a program that uses a static variable
VMStaticStringProgram ==
    << Push("constant", 5, "test"),
       Pop("static", 0, "test") >>

\* the path of a .vm file of directory "prog"
VMFile(stem) == [dir |-> "prog", stem |-> stem]

\* load_directory of A.vm and B.vm: A stores to its static 8 and its static 16,
\* B reads its static 0
VMTwoFileProgram ==
    << Function("Sys.init", 0),
       Push("constant", 5, "A"),
       Pop("static", 8, "A"),
       Push("constant", 6, "A"),
       Pop("static", 16, "A"),
       Call("B.get", 0),
       Return,
       Function("B.get", 0),
       Push("static", 0, "B"),
       Return >>

\* programs whose second or third command raises a runtime error: add on an
\* empty stack, goto to a label that is not defined, call of a function that
\* is not defined, return with no call frame
VMUnderflowProgram == << Label("START"), Arithmetic("add") >>

VMBadGotoProgram == << Label("START"), Goto("NOWHERE") >>

VMBadCallProgram == << Label("START"), Call("No.f", 0) >>

VMStrayReturnProgram == << Label("START"), Push("constant", 1, "test"), Return >>

\* two functions with a label of the same name; Main.main does not return, so
\* execution runs on into the commands of Other.f
VMLabelProgram ==
    << Function("Main.main", 0),
       Push("constant", 1, "test"),
       Push("constant", 1, "test"),
       IfGoto("L"),
       Label("L"),
       Function("Other.f", 0),
       IfGoto("L"),
       Label("L") >>

VMPrograms ==
    << get_program(VMCallProgram, <<>>),
       get_program(VMNoArgProgram, <<>>),
       get_program(VMClobberProgram, <<>>),
       get_program(VMScriptProgram, <<>>),
       get_program(VMLoopProgram, <<>>),
       get_program(VMBigFrameProgram, <<>>),
       get_program(VMStaticStringProgram, <<>>),
       get_program(VMTwoFileProgram, <<VMFile("A"), VMFile("B")>>),
       get_program(VMUnderflowProgram, <<>>),
       get_program(VMBadGotoProgram, <<>>),
       get_program(VMBadCallProgram, <<>>),
       get_program(VMStrayReturnProgram, <<>>),
       get_program(VMLabelProgram, <<>>) >>

\* SourceEntry, as parse_map_line builds it from "MAP file:line -> index [function]"
SourceEntry(jack_file, jack_line, vm_command_index, function_name) ==
    [jack_file |-> jack_file, jack_line |-> jack_line,
     vm_command_index |-> vm_command_index, function_name |-> function_name]

\* STEPPING_VM of the debugger's tests: command 0 and commands 6, 7 are mapped
\* to no Jack line
JackSteppingVM ==
    << Function("Main.main", 2),
       Push("constant", 10, "test"),
       Pop("local", 0, "test"),
       Push("constant", 20, "test"),
       Push("local", 0, "test"),
       Pop("local", 1, "test"),
       Push("local", 1, "test"),
       Return >>

\* STEPPING_SMAP: line 10 is commands 1-2, line 11 command 3, line 12 commands 4-5
JackSteppingSmap ==
    << SourceEntry("Main", 10, 1, "Main.main"),
       SourceEntry("Main", 10, 2, "Main.main"),
       SourceEntry("Main", 11, 3, "Main.main"),
       SourceEntry("Main", 12, 4, "Main.main"),
       SourceEntry("Main", 12, 5, "Main.main") >>

\* what JackDebugger::load is given: VM text and source map text
\* a source map naming line 0 and the command index 8 of a program of 8 commands
JackStraySmap ==
    << SourceEntry("Main", 0, 1, "Main.main"),
       SourceEntry("Main", 10, 8, "Main.main") >>

\* a caller and a callee, after the program of test_jack_step_out; command 3,
\* the command the callee returns to, is mapped to no Jack line
JackStepOutVM ==
    << Function("Sys.init", 0),
       Push("constant", 5, "test"),
       Call("Math.double", 1),
       Pop("temp", 0, "test"),
       Push("temp", 0, "test"),
       Return,
       Function("Math.double", 0),
       Push("argument", 0, "test"),
       Return >>

JackStepOutSmap ==
    << SourceEntry("Init", 10, 1, "Sys.init"),
       SourceEntry("Init", 10, 2, "Sys.init"),
       SourceEntry("Init", 12, 4, "Sys.init"),
       SourceEntry("Math", 5, 7, "Math.double"),
       SourceEntry("Math", 7, 8, "Math.double") >>

JackPrograms ==
    << [vm |-> get_program(JackSteppingVM, <<>>), smap |-> JackSteppingSmap],
       [vm |-> get_program(JackSteppingVM, <<>>), smap |-> JackStraySmap],
       [vm |-> get_program(JackStepOutVM, <<>>), smap |-> JackStepOutSmap] >>

\* SourceMap::parse_map_line: the entries after the directive d, given as the
\* fields read from "MAP file:line -> index [function]"
parse_map_line(entries, d) ==
    Append(entries, SourceEntry(d.jack_file, d.jack_line, d.vm_command_index,
                                d.function_name))

\* SourceMap::load_string on the MAP directives of a source map text
RECURSIVE ParseMapLines(_, _)
ParseMapLines(entries, directives) ==
    IF directives = <<>> THEN entries
    ELSE ParseMapLines(parse_map_line(entries, Head(directives)), Tail(directives))

\* the lines a host asks breakpoints for; Main:999 is mapped from no command
JackLines == { <<"Main", 10>>, <<"Main", 11>>, <<"Main", 12>>, <<"Main", 999>> }

\* program_ = 0 is the engine before any load: an empty program; the programs
\* past VMPrograms are those the Jack debugger loads into its engine
Program(i) ==
    IF i = 0 THEN get_program(<<>>, <<>>)
    ELSE IF i <= Len(VMPrograms) THEN VMPrograms[i]
    ELSE JackPrograms[i - Len(VMPrograms)].vm

\* "" lets initialize_execution choose; "Nope.f" is defined by no program
EntryPoints == {"", "Nope.f"}

\* @1, D=A, @2, D=A
CPUStraightProgram == <<1, 60432, 2, 60432>>
\* @0, 0;JMP
CPULoopProgram == <<0, 60039>>
\* A=-1, M=D: the write goes to RAM[65535]
CPUBadWriteProgram == <<61088, 58120>>
\* @3, D=A, @16, M=D, D;JGT (jump to 16, past the program)
CPUStoreProgram == <<3, 60432, 16, 58120, 58113>>

\* @1, then a C-instruction whose comp field 0000001 is no computation
CPUBadCompProgram == <<1, 57408>>

\* @6, D=A, @20, AM=D, @0, A=D;JMP: both instructions write A, the first also
\* M, the second jumps
CPUDestProgram == <<6, 60432, 20, 58152, 0, 58151>>

CPUPrograms == <<CPUStraightProgram, CPULoopProgram, CPUBadWriteProgram, CPUStoreProgram,
                 CPUBadCompProgram, CPUDestProgram>>

\* breakpoint addresses the host uses
BreakAddrs == {0, 3}
\* size of the breakpoint set the host builds
MaxBreakpoints == 1

-----------------------------------------------------------------------------
(* Public operations.  op is the call in flight: its name, the locals of   *)
(* its loop (count, limit, depth), the state it was called in (from), the  *)
(* call-stack depth a step_out was called at (entered) and the             *)
(* instructions it has executed.  last is the call that returned most  *)
(* recently: its name, the state it returned, from and executed.           *)

NoCall == [name |-> "none", ret |-> "READY", from |-> "READY", executed |-> 0,
           limit |-> 0]


\* instructions a call has executed, counted up to MaxRunFor + 1
Executed(n) == IF n > MaxRunFor THEN MaxRunFor + 1 ELSE n

Idle == [name |-> "idle", count |-> 0, limit |-> 0, depth |-> 0, executed |-> 0,
         from |-> "READY", entered |-> 0]

InFlight(name, limit, depth) ==
    [name |-> name, count |-> 0, limit |-> limit, depth |-> depth, executed |-> 0,
     from |-> state_, entered |-> 0]

IsIdle == op.name = "idle"

Delta(e) == e.stats_.instructions_executed - stats_.instructions_executed

Fixed == UNCHANGED <<outside, engine, program_, entry_point_, breakpoints_>>

Budget == stats_.instructions_executed < MaxInstr

\* get_file_basename: a path is the record [dir, stem] of "dir/stem.vm"
get_file_basename(file_path) == file_path.stem

RECURSIVE AllocStatics(_, _)
AllocStatics(m, files) ==
    IF files = <<>> THEN m
    ELSE AllocStatics(get_static_base(m, get_file_basename(Head(files))).m, Tail(files))

\* VMEngine::initialize_execution
initialize_execution(prog, entry_point, e) ==
    LET m0 == VMMemoryReset
        fep == prog.function_entry_points
        entry == IF entry_point # "" THEN entry_point
                 ELSE IF "Sys.init" \in DOMAIN fep THEN "Sys.init"
                 ELSE IF "Main.main" \in DOMAIN fep THEN "Main.main"
                 ELSE ""
    IN  IF entry # "" /\ entry \notin DOMAIN fep
        THEN CatchError([e EXCEPT !.memory_ = m0], "Entry point function not found")
        ELSE LET pc == IF entry # "" THEN fep[entry] ELSE 0
                 m1 == IF entry # ""
                       THEN push_frame(m0, 0, entry, 0, NumLocalsAt(prog, pc))
                       ELSE m0
             IN  [e EXCEPT !.memory_ = AllocStatics(m1, prog.source_files),
                           !.pc_ = pc, !.state_ = "PAUSED", !.pause_reason_ = "NONE"]

\* the first lines of every VMEngine execution operation
VMEnter(e) ==
    IF e.state_ = "READY" THEN initialize_execution(Program(program_), entry_point_, e)
    ELSE e

\* the state test of the VM operations letting ERROR through
VMCanExecute_in_error(e) == e.state_ \in {"PAUSED", "RUNNING", "ERROR"}

\* the state test that follows in every VMEngine execution operation
VMCanExecute_when_halted(e) == e.state_ \in {"PAUSED", "RUNNING", "HALTED"}

VMCanExecute(e) == e.state_ \in {"PAUSED", "RUNNING"}

VMCore(e, seen, u) == execute_command(Program(program_), breakpoints_, e, seen, u)

Depth(e) == Len(e.memory_.call_stack_)

\* state_ = RUNNING, pause_reason_ = NONE, pause_requested_ = false
Started(e) ==
    [e EXCEPT !.state_ = "RUNNING", !.pause_reason_ = "NONE", !.pause_requested_ = FALSE]

\* RAM cells that hold the five saved words of the frames fs
FrameWords(fs) == UNION { f.old_sp .. (f.old_sp + 4) : f \in fs }

Frames(m) == { m.call_stack_[i] : i \in 1 .. Len(m.call_stack_) }

Changed(m, n, cells) == \E a \in cells : Rd(n.ram_, a) # Rd(m.ram_, a)

\* going from memory m to memory n overwrote a saved word of a frame that stays
\* live, or changed LCL or ARG outside call/return, or was a call whose
\* arguments start below the caller's LCL
Clobbers(m, n) ==
    \/ Changed(m, n, FrameWords(Frames(m) \cap Frames(n)))
    \/ m.call_stack_ = n.call_stack_ /\ Changed(m, n, {LCL, ARG})
    \/ Len(n.call_stack_) = Len(m.call_stack_) + 1 /\ GetARG(n) < GetLCL(m)

\* the history variable after a step of the VM engine that leaves memory n; a
\* call made in state READY starts from the memory reset by initialize_execution
History(n) ==
    IF engine # "vm" THEN FALSE
    ELSE IF IsIdle /\ state_ = "READY" THEN Clobbers(VMMemoryReset, n)
    ELSE clobbered \/ Clobbers(memory_, n)

\* the call, made with argument limit, returns e.state_ to the host
ReturnsFrom(name, e, limit) ==
    /\ SetEng(e)
    /\ op' = Idle
    /\ last' = [name |-> name, ret |-> e.state_,
                from |-> IF IsIdle THEN state_ ELSE op.from,
                executed |-> Executed(op.executed + Delta(e)),
                limit |-> limit]
    /\ pause_raced' = FALSE
    /\ clobbered' = History(e.memory_)

Returns(name, e) == ReturnsFrom(name, e, op.limit)

\* the call stays in flight with engine state e
Continue(e, nextOp) ==
    /\ SetEng(e)
    /\ op' = [nextOp EXCEPT !.executed = Executed(@ + Delta(e))]
    /\ last' = NoCall
    /\ pause_raced' = (pause_raced /\ e.pause_requested_)
    /\ clobbered' = History(e.memory_)

\* VMEngine::load_string; the host works with one program per engine
VMLoad(p) ==
    /\ engine = "vm" /\ IsIdle
    /\ program_ \in {0, p}
    /\ program_' = p
    /\ last' = [NoCall EXCEPT !.name = "load", !.from = state_]
    /\ state_' = "READY"
    /\ pc_' = 0
    /\ stats_' = VMStatsReset
    /\ UNCHANGED <<outside, engine, entry_point_, memory_, a_register_, d_register_, pause_reason_,
                   pause_requested_, pause_raced, breakpoints_, error_message_,
                   error_location_, op, clobbered>>

\* VMEngine::set_entry_point
VMSetEntryPoint(n) ==
    /\ engine = "vm" /\ IsIdle
    /\ entry_point_' = n
    /\ UNCHANGED <<outside, engine, program_, memory_, a_register_, d_register_, pc_, state_,
                   pause_reason_, pause_requested_, pause_raced, stats_, breakpoints_,
                   error_message_, error_location_, op, last, clobbered>>

\* VMEngine::reset leaving the statistics as they were
VMReset_keeps_stats ==
    /\ engine = "vm" /\ IsIdle
    /\ memory_' = VMMemoryReset
    /\ pc_' = 0
    /\ state_' = "READY"
    /\ pause_reason_' = "NONE"
    /\ pause_requested_' = FALSE
    /\ pause_raced' = FALSE
    /\ error_message_' = ""
    /\ error_location_' = 0
    /\ last' = [NoCall EXCEPT !.name = "reset", !.from = state_]
    /\ clobbered' = FALSE
    /\ UNCHANGED <<outside, engine, program_, entry_point_, a_register_, d_register_,
                   breakpoints_, op, stats_>>

\* VMEngine::reset
VMReset ==
    /\ engine = "vm" /\ IsIdle
    /\ memory_' = VMMemoryReset
    /\ pc_' = 0
    /\ state_' = "READY"
    /\ pause_reason_' = "NONE"
    /\ pause_requested_' = FALSE
    /\ pause_raced' = FALSE
    /\ stats_' = VMStatsReset
    /\ error_message_' = ""
    /\ error_location_' = 0
    /\ last' = [NoCall EXCEPT !.name = "reset", !.from = state_]
    /\ clobbered' = FALSE
    /\ UNCHANGED <<outside, engine, program_, entry_point_, a_register_, d_register_,
                   breakpoints_, op>>

\* VMEngine::run up to its loop
VMRun ==
    /\ engine = "vm" /\ IsIdle /\ Fixed
    /\ LET e0 == VMEnter(Eng) IN
       IF ~VMCanExecute(e0) THEN Returns("run", e0)
       ELSE Continue(Started(e0), InFlight("run", 0, 0))

\* the body of the loop of run, of either engine; r is what the core step left
RunLoop(r) ==
    IF r.ret /\ r.e.state_ = "RUNNING"
    THEN Continue(r.e, [op EXCEPT !.count = @ + 1])
    ELSE Returns("run", r.e)

\* one iteration of the loop of VMEngine::run
VMRunIter ==
    /\ engine = "vm" /\ op.name = "run" /\ Budget /\ Fixed
    /\ \E seen \in PauseReads, u \in UBWords : RunLoop(VMCore(Eng, seen, u))

\* run_for without the pause that follows its loop
AfterRunFor_no_pause(e) == e

\* what run_for does after its loop
AfterRunFor(e) ==
    IF e.state_ = "RUNNING"
    THEN [e EXCEPT !.state_ = "PAUSED", !.pause_reason_ = "USER_REQUEST"]
    ELSE e

\* VMEngine::run_for up to its loop (with max_instructions = 0 the loop is empty)
VMRunFor(n) ==
    /\ engine = "vm" /\ IsIdle /\ Fixed
    /\ LET e0 == VMEnter(Eng) IN
       IF ~VMCanExecute(e0) THEN ReturnsFrom("run_for", e0, n)
       ELSE IF n = 0 THEN ReturnsFrom("run_for", AfterRunFor(Started(e0)), n)
       ELSE Continue(Started(e0), InFlight("run_for", n, 0))

\* the body of the loop of run_for, of either engine, and what follows the
\* loop when it ends
RunForLoop(r) ==
    IF r.ret /\ r.e.state_ = "RUNNING" /\ op.count + 1 < op.limit
    THEN Continue(r.e, [op EXCEPT !.count = @ + 1])
    ELSE Returns("run_for", AfterRunFor(r.e))

\* one iteration of the loop of VMEngine::run_for
VMRunForIter ==
    /\ engine = "vm" /\ op.name = "run_for" /\ Budget /\ Fixed
    /\ \E seen \in PauseReads, u \in UBWords : RunForLoop(VMCore(Eng, seen, u))

\* what step and step_over do after executing
AfterStep(e) ==
    IF e.state_ = "RUNNING"
    THEN [e EXCEPT !.state_ = "PAUSED", !.pause_reason_ = "STEP_COMPLETE"]
    ELSE e

\* state_ = RUNNING, pause_reason_ = NONE: step leaves pause_requested_ alone
Stepping(e) == [e EXCEPT !.state_ = "RUNNING", !.pause_reason_ = "NONE"]

\* VMEngine::step
VMStep ==
    /\ engine = "vm" /\ IsIdle /\ Budget /\ Fixed
    /\ LET e0 == VMEnter(Eng) IN
       IF ~VMCanExecute(e0) THEN Returns("step", e0)
       ELSE \E seen \in PauseReads, u \in UBWords :
              Returns("step", AfterStep(VMCore(Stepping(e0), seen, u).e))

\* VMEngine::step_out up to its loop; target_depth is a size_t, so size() - 1
\* wraps to SIZE_MAX when the call stack is empty
VMStepOut ==
    /\ engine = "vm" /\ IsIdle /\ Fixed
    /\ LET e0 == VMEnter(Eng) IN
       IF ~VMCanExecute(e0) THEN Returns("step_out", e0)
       ELSE Continue(Started(e0),
                     [InFlight("step_out", 0,
                               IF Depth(e0) = 0 THEN SIZE_MAX ELSE Depth(e0) - 1)
                        EXCEPT !.entered = Depth(e0)])

\* the body of the loop of step_out; r is what execute_command left
StepOutLoop(r) ==
    IF ~r.ret THEN Returns("step_out", r.e)
    ELSE IF Depth(r.e) <= op.depth
    THEN Returns("step_out",
                 [r.e EXCEPT !.state_ = "PAUSED", !.pause_reason_ = "FUNCTION_EXIT"])
    ELSE IF r.e.state_ = "RUNNING"
    THEN Continue(r.e, [op EXCEPT !.count = @ + 1])
    ELSE Returns("step_out", r.e)

\* one iteration of the loop of VMEngine::step_out
VMStepOutIter ==
    /\ engine = "vm" /\ op.name = "step_out" /\ Budget /\ Fixed
    /\ \E seen \in PauseReads, u \in UBWords : StepOutLoop(VMCore(Eng, seen, u))

\* VMEngine::step_over up to the execution of the current command
VMStepOver ==
    /\ engine = "vm" /\ IsIdle /\ Fixed
    /\ LET e0 == VMEnter(Eng) IN
       IF ~VMCanExecute(e0) THEN Returns("step_over", e0)
       ELSE Continue(Started(e0), InFlight("step_over", 0, Depth(e0)))

\* what step_over does with the outcome r of an execute_command
StepOverLoop(r) ==
    IF ~r.ret THEN Returns("step_over", r.e)
    ELSE IF r.e.state_ = "RUNNING" /\ Depth(r.e) > op.depth
    THEN Continue(r.e, [op EXCEPT !.count = @ + 1])
    ELSE Returns("step_over", AfterStep(r.e))

\* the execution of the current command, or one iteration of the loop, of
\* VMEngine::step_over
VMStepOverIter ==
    /\ engine = "vm" /\ op.name = "step_over" /\ Budget /\ Fixed
    /\ \E seen \in PauseReads, u \in UBWords : StepOverLoop(VMCore(Eng, seen, u))

CPUCanExecute(e) == e.state_ \in {"READY", "PAUSED"}

CPUCore(e, seen) == execute_instruction(breakpoints_, e, seen)

\* CPUEngine::load; the host works with one program per engine, program_
CPULoad(p) ==
    /\ engine = "cpu" /\ IsIdle
    /\ program_ \in {0, p}
    /\ program_' = p
    /\ last' = [NoCall EXCEPT !.name = "load", !.from = state_]
    /\ memory_' = load_rom(memory_, CPUPrograms[p])
    /\ state_' = "READY"
    /\ pc_' = 0
    /\ a_register_' = 0
    /\ d_register_' = 0
    /\ stats_' = CPUStatsReset
    /\ UNCHANGED <<outside, engine, entry_point_, pause_reason_, pause_requested_,
                   pause_raced, breakpoints_, error_message_, error_location_, op,
                   clobbered>>

\* CPUEngine::reset
CPUReset ==
    /\ engine = "cpu" /\ IsIdle
    /\ memory_' = CPUMemoryReset
    /\ a_register_' = 0
    /\ d_register_' = 0
    /\ pc_' = 0
    /\ state_' = "READY"
    /\ pause_reason_' = "NONE"
    /\ pause_requested_' = FALSE
    /\ pause_raced' = FALSE
    /\ stats_' = CPUStatsReset
    /\ error_message_' = ""
    /\ error_location_' = 0
    /\ last' = [NoCall EXCEPT !.name = "reset", !.from = state_]
    /\ UNCHANGED <<outside, engine, program_, entry_point_, breakpoints_, op, clobbered>>

\* CPUEngine::run up to its loop
CPURun ==
    /\ engine = "cpu" /\ IsIdle /\ Fixed
    /\ IF ~CPUCanExecute(Eng) THEN Returns("run", Eng)
       ELSE Continue(Started(Eng), InFlight("run", 0, 0))

\* one iteration of the loop of CPUEngine::run
CPURunIter ==
    /\ engine = "cpu" /\ op.name = "run" /\ Budget /\ Fixed
    /\ \E seen \in PauseReads : RunLoop(CPUCore(Eng, seen))

\* CPUEngine::run_for up to its loop (with max_instructions = 0 the loop is empty)
CPURunFor(n) ==
    /\ engine = "cpu" /\ IsIdle /\ Fixed
    /\ IF ~CPUCanExecute(Eng) THEN ReturnsFrom("run_for", Eng, n)
       ELSE IF n = 0 THEN ReturnsFrom("run_for", AfterRunFor(Started(Eng)), n)
       ELSE Continue(Started(Eng), InFlight("run_for", n, 0))

\* one iteration of the loop of CPUEngine::run_for
CPURunForIter ==
    /\ engine = "cpu" /\ op.name = "run_for" /\ Budget /\ Fixed
    /\ \E seen \in PauseReads : RunForLoop(CPUCore(Eng, seen))

\* CPUEngine::step
CPUStep ==
    /\ engine = "cpu" /\ IsIdle /\ Budget /\ Fixed
    /\ IF ~CPUCanExecute(Eng) THEN Returns("step", Eng)
       ELSE \E seen \in PauseReads :
              Returns("step", AfterStep(CPUCore(Stepping(Eng), seen).e))

\* VMEngine::pause / CPUEngine::pause: may run while a call is in flight
Pause ==
    /\ pause_requested_' = TRUE
    /\ pause_raced' = ~IsIdle
    /\ UNCHANGED <<outside, engine, program_, entry_point_, memory_, a_register_, d_register_,
                   pc_, state_, pause_reason_, stats_, breakpoints_, error_message_,
                   error_location_, op, last, clobbered>>

BreakpointsOnly ==
    UNCHANGED <<outside, engine, program_, entry_point_, memory_, a_register_, d_register_,
                pc_, state_, pause_reason_, pause_requested_, pause_raced, stats_,
                error_message_, error_location_, op, last, clobbered>>

\* add_breakpoint
AddBreakpoint(a) ==
    /\ IsIdle
    /\ Cardinality(breakpoints_ \cup {a}) <= MaxBreakpoints
    /\ breakpoints_' = breakpoints_ \cup {a}
    /\ BreakpointsOnly

\* remove_breakpoint
RemoveBreakpoint(a) ==
    /\ IsIdle
    /\ breakpoints_' = breakpoints_ \ {a}
    /\ BreakpointsOnly

\* clear_breakpoints
ClearBreakpoints ==
    /\ IsIdle
    /\ breakpoints_' = {}
    /\ BreakpointsOnly

\* HDLChipDef: a chip with no pins and no parts
NoChip == [name |-> "", inputs |-> <<>>, outputs |-> <<>>, parts |-> <<>>]

\* no TstRunner call has been made
TstNoCall == [name |-> "none", ret |-> FALSE, threw |-> "", cmp |-> FALSE]

\* JackDebugStats::reset
JackStatsReset == [total_vm_instructions |-> 0, function_instruction_counts |-> [f \in {} |-> 0]]

\* no JackDebugger call is in flight
JackIdle == [name |-> "idle", current_source |-> <<>>, instr_before |-> 0, stuck |-> FALSE,
             expect |-> <<>>, initial_depth |-> 0]

\* no JackDebugger call has returned yet
JackNoCall == [name |-> "none", ret |-> "READY"]

-----------------------------------------------------------------------------
(* The engines after construction, and every step the host or an engine    *)
(* can take                                                                *)

\* the engine after construction
EngineInit ==
    /\ engine \in {"vm", "cpu"}
    /\ program_ = 0
    /\ entry_point_ = ""
    /\ memory_ = IF engine = "vm" THEN VMMemoryReset ELSE CPUMemoryReset
    /\ a_register_ = 0
    /\ d_register_ = 0
    /\ pc_ = 0
    /\ state_ = "READY"
    /\ pause_reason_ = "NONE"
    /\ pause_requested_ = FALSE
    /\ pause_raced = FALSE
    /\ stats_ = IF engine = "vm" THEN VMStatsReset ELSE CPUStatsReset
    /\ breakpoints_ = {}
    /\ error_message_ = ""
    /\ error_location_ = 0
    /\ op = Idle
    /\ last = NoCall
    /\ clobbered = FALSE

\* the Jack debugger after construction
JackInit ==
    /\ source_map_ = <<>>
    /\ jack_breakpoints_ = {}
    /\ jack_pause_reason_ = "NONE"
    /\ jack_stats_ = JackStatsReset
    /\ jop = JackIdle
    /\ jlast = JackNoCall

\* no chip has been defined
HDLInit ==
    /\ def_ = NoChip
    /\ input_mappings_ = <<>>
    /\ output_mappings_ = <<>>
    /\ eval_order_ = <<>>
    /\ chip_state = "defined"
    /\ pins_ = <<>>
    /\ sub_chips_ = <<>>
    /\ evals_ = [count |-> 0, before |-> <<>>]

\* the .tst runner after construction
TstInit ==
    /\ commands_ = <<>>
    /\ pos_ = 0
    /\ output_ = <<>>
    /\ output_row_ = 0
    /\ output_columns_ = <<>>
    /\ compare_lines_ = <<>>
    /\ comparison_error_ = <<>>
    /\ chip_ = <<>>
    /\ top = "idle"
    /\ tlast = TstNoCall
    /\ hdl_state_ = "READY"

\* no command of a straight-line run executed yet
SegInit == popped_ = <<>>

\* a CPUMemory after construction: nothing written
MemInit == screen_written_ = FALSE

\* HDLChip::init_pins: the pin is 0
PinInit == pin_ = {} /\ pin_write_ = <<>>

\* no sequential chip made yet
SeqInit == seq_ = <<>> /\ seq_tick_ = <<>>

Init ==
    EngineInit /\ JackInit /\ HDLInit /\ TstInit /\ SegInit /\ MemInit /\ PinInit /\ SeqInit

Next ==
    \/ \E p \in 1 .. Len(VMPrograms) : VMLoad(p)
    \/ \E n \in EntryPoints : VMSetEntryPoint(n)
    \/ VMReset
    \/ VMRun
    \/ VMRunIter
    \/ \E n \in 0 .. MaxRunFor : VMRunFor(n)
    \/ VMRunForIter
    \/ VMStep
    \/ VMStepOut
    \/ VMStepOutIter
    \/ VMStepOver
    \/ VMStepOverIter
    \/ \E p \in 1 .. Len(CPUPrograms) : CPULoad(p)
    \/ CPUReset
    \/ CPURun
    \/ CPURunIter
    \/ \E n \in 0 .. MaxRunFor : CPURunFor(n)
    \/ CPURunForIter
    \/ CPUStep
    \/ Pause
    \/ \E a \in BreakAddrs : AddBreakpoint(a)
    \/ \E a \in BreakAddrs : RemoveBreakpoint(a)
    \/ ClearBreakpoints

Spec == Init /\ [][Next]_vars

-----------------------------------------------------------------------------
(* Properties of the engines.  Steps of the engines are named by the       *)
(* actions that take them; what a call executed is read from op and last.  *)

Top(m) == m.call_stack_[Len(m.call_stack_)]

\* a step in which the VM engine completes a return command
ReturnStep ==
    /\ engine = "vm"
    /\ state_ # "READY"
    /\ stats_'.return_count = stats_.return_count + 1
    /\ Len(memory_'.call_stack_) = Len(memory_.call_stack_) - 1

\* the word a return command pops as the return value
ReturnValue == Rd(memory_.ram_, GetSP(memory_) - 1)

\* LCL, ARG, THIS and THAT are what the top frame recorded at its call
PointersRestored(f) ==
    /\ GetLCL(memory_') = f.saved_lcl
    /\ GetARG(memory_') = f.saved_arg
    /\ GetTHIS(memory_') = f.saved_this
    /\ GetTHAT(memory_') = f.saved_that

\* the arguments of the top frame's call lie in the stack region, and the
\* callee left LCL, ARG and the four saved pointer words as push_frame wrote them
CallFrameIntact(m) ==
    LET f == Top(m) IN
    /\ f.old_sp - f.num_args >= STACK_BASE
    /\ f.old_sp + 4 < RAM_SIZE
    /\ GetLCL(m) = f.old_sp + 5
    /\ GetARG(m) = f.old_sp - f.num_args
    /\ Rd(m.ram_, f.old_sp + 1) = f.saved_lcl
    /\ Rd(m.ram_, f.old_sp + 2) = f.saved_arg
    /\ Rd(m.ram_, f.old_sp + 3) = f.saved_this
    /\ Rd(m.ram_, f.old_sp + 4) = f.saved_that

\* C1 as stated: when the return of a call completes, SP, LCL, ARG, THIS and
\* THAT are what they were immediately before the call, and the return value
\* is the word at the caller's top of stack.
C1_CallerStateEqualAfterReturn ==
    [][ReturnStep /\ Top(memory_).return_address # 0 =>
           /\ GetSP(memory_') = Top(memory_).old_sp
           /\ PointersRestored(Top(memory_))
           /\ Rd(memory_'.ram_, GetSP(memory_') - 1) = ReturnValue]_vars

\* C1 as the code has it: when the return of a call completes whose arguments
\* lay in the stack region and whose callee left LCL, ARG and its saved
\* pointer words alone, LCL, ARG, THIS and THAT are what they were before the
\* call, SP is its value before the call minus n_args plus 1, and the return
\* value is the word at the caller's top of stack.
C1_CallerStateRestored ==
    [][ReturnStep /\ Top(memory_).return_address # 0 /\ CallFrameIntact(memory_) =>
           /\ GetSP(memory_') = Top(memory_).old_sp - Top(memory_).num_args + 1
           /\ PointersRestored(Top(memory_))
           /\ Rd(memory_'.ram_, GetSP(memory_') - 1) = ReturnValue]_vars

\* Math.add 7 8 has returned to Sys.init: 15 replaced the two arguments
C1_Returned ==
    /\ engine = "vm" /\ program_ = 1
    /\ stats_.call_count = 1 /\ stats_.return_count = 1
    /\ Len(memory_.call_stack_) = 1
    /\ GetSP(memory_) = 262
    /\ Rd(memory_.ram_, 261) = 15
    /\ GetLCL(memory_) = 261 /\ GetARG(memory_) = 256

\* C2: the VM keeps 256 <= SP <= 2048 at every observable point.
C2_StackPointerInRange ==
    engine = "vm" => GetSP(memory_) \in STACK_BASE .. (STACK_MAX + 1)

\* one iteration of the loop of run or run_for, of either engine
RunLoopStep == VMRunIter \/ VMRunForIter \/ CPURunIter \/ CPURunForIter

\* the call in flight has executed an instruction and stands at a breakpoint
AtBreakpoint == op.executed >= 1 /\ pc_ \in breakpoints_

StopsAtBreakpoint ==
    /\ state_' = "PAUSED" /\ pause_reason_' = "BREAKPOINT"
    /\ pc_' = pc_
    /\ UNCHANGED <<memory_, a_register_, d_register_, stats_>>

\* C3 as stated: a run()/run_for() that, having executed an instruction,
\* comes to a PC in the breakpoint set stops PAUSED with reason BREAKPOINT,
\* the PC at the breakpoint and the instruction there not executed.
C3_BreakpointAlwaysStops ==
    [][RunLoopStep /\ AtBreakpoint => StopsAtBreakpoint]_vars

\* the PC is inside the loaded program
InProgram ==
    IF engine = "vm" THEN pc_ < Len(Program(program_).commands)
    ELSE pc_ < rom_size(memory_)

\* C3 as the code has it: a run()/run_for() that, having executed an
\* instruction, begins a loop iteration at a PC inside the program that is in
\* the breakpoint set, with no pause request pending, stops PAUSED with reason
\* BREAKPOINT, the PC at the breakpoint and the instruction not executed.
C3_BreakpointStops ==
    [][RunLoopStep /\ AtBreakpoint /\ InProgram /\ ~pause_requested_ =>
           StopsAtBreakpoint]_vars

\* a run()/run_for() that executed something has returned at a breakpoint
C3_StoppedAtBreakpoint ==
    /\ IsIdle
    /\ last.name \in {"run", "run_for"} /\ last.executed >= 1
    /\ last.ret = "PAUSED" /\ state_ = "PAUSED" /\ pause_reason_ = "BREAKPOINT"
    /\ pc_ \in breakpoints_

\* C4: run() called on an engine PAUSED at an address in the breakpoint set
\* executes the instruction there before it reports a breakpoint again: its
\* first loop iteration does not end PAUSED with reason BREAKPOINT.
C4_ResumeDoesNotRetrip ==
    [][(VMRunIter \/ CPURunIter) /\ op.count = 0 /\ op.executed = 0
         /\ op.from = "PAUSED" /\ pc_ \in breakpoints_ =>
           ~(state_' = "PAUSED" /\ pause_reason_' = "BREAKPOINT")]_vars

\* C5: step() called in READY or PAUSED executes exactly one instruction and
\* ends PAUSED with reason STEP_COMPLETE, unless the instruction halts the
\* program or raises an error.
C5_StepExecutesOne ==
    [][(VMStep \/ CPUStep) /\ state_ \in {"READY", "PAUSED"} =>
           \/ state_' \in {"HALTED", "ERROR"}
           \/ /\ stats_'.instructions_executed = stats_.instructions_executed + 1
              /\ state_' = "PAUSED" /\ pause_reason_' = "STEP_COMPLETE"]_vars

\* C6: with a pause request set, the loop ends at the next instruction
\* boundary: its next iteration executes nothing and leaves the engine stopped,
\* and when it stops PAUSED the reason is USER_REQUEST and the request is
\* consumed.  (An engine that has nothing left to execute may stop HALTED.)
C6_PauseStopsAtNextBoundary ==
    [][RunLoopStep /\ pause_requested_ =>
           /\ UNCHANGED <<memory_, a_register_, d_register_, pc_, stats_>>
           /\ state_' \in {"PAUSED", "HALTED"}
           /\ state_' = "PAUSED" =>
                 pause_reason_' = "USER_REQUEST" /\ ~pause_requested_']_vars

\* a call of run, run_for or step of either engine
RunOrStepCall ==
    \/ VMRun \/ VMStep \/ (\E n \in 0 .. MaxRunFor : VMRunFor(n))
    \/ CPURun \/ CPUStep \/ (\E n \in 0 .. MaxRunFor : CPURunFor(n))

C8_RunForBounded ==
    /\ op.name = "run_for" => op.executed < op.limit
    /\ IsIdle /\ last.name = "run_for" =>
          /\ last.executed <= last.limit
          /\ last.executed = last.limit /\ last.from \in {"READY", "PAUSED"}
               /\ last.ret \notin {"HALTED", "ERROR"} =>
                  /\ last.ret = "PAUSED" /\ state_ = "PAUSED"
                  /\ pause_reason_ = "USER_REQUEST"

\* a run_for(2) has returned after its two instructions
C8_BudgetExhausted ==
    /\ IsIdle /\ last.name = "run_for"
    /\ last.limit = 2 /\ last.executed = 2
    /\ state_ = "PAUSED" /\ pause_reason_ = "USER_REQUEST"

\* C9: a return that pops a frame whose return address is 0 ends the program
\* HALTED, and HALTED is what the operation that drove it returns.
C9_BootstrapReturnHalts ==
    [][ReturnStep /\ GetLCL(memory_) >= 5 /\ Rd(memory_.ram_, GetLCL(memory_) - 5) = 0 =>
           /\ state_' = "HALTED"
           /\ op' = Idle => last'.ret = "HALTED"]_vars

\* the top shadow frame records the five words of RAM below LCL
TopConsistent(m) ==
    m.call_stack_ # <<>> =>
        LET f == Top(m)
            l == GetLCL(m)
        IN  /\ l >= 5
            /\ Rd(m.ram_, l - 5) = ToWord(f.return_address)
            /\ Rd(m.ram_, l - 4) = f.saved_lcl
            /\ Rd(m.ram_, l - 3) = f.saved_arg
            /\ Rd(m.ram_, l - 2) = f.saved_this
            /\ Rd(m.ram_, l - 1) = f.saved_that

\* C10 as stated (its part about the top frame): at every point the top shadow
\* frame's return address and saved LCL, ARG, THIS, THAT equal the RAM words
\* at LCL-5 .. LCL-1.
C10_TopFrameAlwaysMatchesRam ==
    engine = "vm" => TopConsistent(memory_)

\* the shadow stack moves as a stack: one frame more on a call, the top one
\* less on a return, at most the bootstrap frame after initialize_execution,
\* none after reset, and no change otherwise
ShadowStackLIFO ==
    LET cs == memory_.call_stack_
        ds == memory_'.call_stack_
    IN  IF VMReset THEN ds = <<>>
        ELSE IF state_ = "READY"
        THEN ds = cs \/ ds = <<>> \/ (Len(ds) = 1 /\ ds[1].return_address = 0)
        ELSE IF stats_'.call_count = stats_.call_count + 1 /\ state_' # "ERROR"
        THEN Len(ds) = Len(cs) + 1 /\ SubSeq(ds, 1, Len(cs)) = cs
        ELSE IF stats_'.return_count = stats_.return_count + 1 /\ state_' # "ERROR"
        THEN cs # <<>> /\ ds = SubSeq(cs, 1, Len(cs) - 1)
        ELSE ds = cs

\* C10 as the code has it: the shadow stack gains one frame on each call and
\* the bootstrap, loses its top frame on each return, and changes at no other
\* command; and as long as no command has overwritten a saved word of a live
\* frame, none but call and return has changed LCL or ARG, and every call found
\* its arguments at or above the caller's LCL, the top shadow frame's fields
\* equal the RAM words at LCL-5 .. LCL-1.
C10_ShadowStackConsistent ==
    [][engine = "vm" =>
           /\ ShadowStackLIFO
           /\ ~clobbered' => TopConsistent(memory_')]_vars

\* a call has returned into a frame that is still consistent with RAM
C10_BackInCaller ==
    /\ engine = "vm" /\ ~clobbered
    /\ stats_.call_count >= 1 /\ stats_.return_count >= 1
    /\ Len(memory_.call_stack_) >= 1
    /\ state_ \in {"RUNNING", "PAUSED"}
    /\ TopConsistent(memory_)

\* LCL and ARG of the frame at depth i: the registers for the executing frame,
\* for a suspended one what the frame above it saved
FrameLCL(m, i) ==
    IF i = Len(m.call_stack_) THEN GetLCL(m) ELSE m.call_stack_[i + 1].saved_lcl

FrameARG(m, i) ==
    IF i = Len(m.call_stack_) THEN GetARG(m) ELSE m.call_stack_[i + 1].saved_arg

\* every live frame has LCL = old_SP + 5 and ARG = old_SP - n_args
FrameLayout(m) ==
    \A i \in 1 .. Len(m.call_stack_) :
        LET f == m.call_stack_[i] IN
        /\ FrameLCL(m, i) = f.old_sp + 5
        /\ FrameARG(m, i) = f.old_sp - f.num_args

\* a step in which the VM engine completes a call command
CallStep ==
    /\ engine = "vm"
    /\ state_ # "READY"
    /\ stats_'.call_count = stats_.call_count + 1
    /\ Len(memory_'.call_stack_) = Len(memory_.call_stack_) + 1

\* the n_args words at the new ARG are the words the caller had on top of its
\* stack when it called
ArgsAreCallerWords ==
    LET n == Top(memory_').num_args IN
    \A i \in 0 .. (n - 1) :
        Rd(memory_'.ram_, GetARG(memory_') + i)
            = Rd(memory_.ram_, GetSP(memory_) - n + i)

\* C11 as stated: for every live call frame LCL = old_SP + 5 and
\* ARG = old_SP - n_args, at every point until the frame returns, whatever
\* commands the function executes.
C11_FrameLayoutAlways ==
    engine = "vm" => FrameLayout(memory_)

\* C11 as the code has it: a call leaves LCL = old_SP + 5, ARG = old_SP - n_args
\* and the caller's top n_args words at ARG; and for every live frame the two
\* equations hold as long as no command has overwritten a saved word of a live
\* frame, none but call and return has changed LCL or ARG, and every call found
\* its arguments at or above the caller's LCL.
C11_FrameLayoutUnlessOverwritten ==
    [][engine = "vm" =>
           /\ ~clobbered' => FrameLayout(memory_')
           /\ CallStep => ArgsAreCallerWords /\ FrameLayout(memory_')]_vars

\* Math.add, called with two arguments, is executing: ARG points at the 7 and
\* the 8 that Sys.init pushed
C11_InsideCallee ==
    /\ engine = "vm" /\ program_ = 1 /\ ~clobbered
    /\ Len(memory_.call_stack_) = 2
    /\ pc_ = 8 /\ state_ \in {"RUNNING", "PAUSED"}
    /\ GetLCL(memory_) = Top(memory_).old_sp + 5
    /\ GetARG(memory_) = Top(memory_).old_sp - 2
    /\ Rd(memory_.ram_, GetARG(memory_)) = 7
    /\ Rd(memory_.ram_, GetARG(memory_) + 1) = 8

\* C12: a return from a function that was called with n_args = 0 resumes at
\* the command after the call and leaves the return value at the caller's top
\* of stack, although ARG[0], where the return value goes, is the RAM word
\* LCL - 5 that holds the return address.
C12_NoArgReturnResumes ==
    [][ReturnStep /\ Top(memory_).num_args = 0 /\ Top(memory_).return_address # 0 =>
           /\ GetARG(memory_) = GetLCL(memory_) - 5
           /\ state_' # "ERROR"
           /\ pc_' = Top(memory_).return_address
           /\ GetSP(memory_') = Top(memory_).old_sp + 1
           /\ Rd(memory_'.ram_, Top(memory_).old_sp) = ReturnValue]_vars

\* Main.f, called without arguments, has returned 5 to Main.main: execution
\* stands at the command after the call and 5 is on top of the stack
C12_NoArgCallReturned ==
    /\ engine = "vm" /\ program_ = 2
    /\ stats_.call_count = 1 /\ stats_.return_count = 1
    /\ Len(memory_.call_stack_) = 1
    /\ pc_ = 2
    /\ GetSP(memory_) = 263
    /\ Rd(memory_.ram_, 262) = 5

\* the engine as its next execution operation finds it (initialized when the
\* state is READY), and the command that operation executes first
Cur == VMEnter(Eng)

CurCommand == Program(program_).commands[Cur.pc_ + 1]

\* a step in which the VM engine enters the handler of a push or pop command
\* that addresses RAM
SegmentStep ==
    /\ engine = "vm"
    /\ \/ stats_'.push_count = stats_.push_count + 1
       \/ stats_'.pop_count = stats_.pop_count + 1
    /\ CurCommand.segment # "constant"

\* the RAM address the command reads or writes
CurAddress ==
    calculate_address(Cur.memory_, CurCommand.segment, CurCommand.index,
                      CurCommand.file_name).v

StaticFiles == DOMAIN Cur.memory_.static_bases_

\* the 16 words reserved for the statics of file f
StaticRange(f) ==
    Cur.memory_.static_bases_[f] .. (Cur.memory_.static_bases_[f] + 15)

\* C13 as stated: a static address of a file is read or written only by push
\* static / pop static commands that come from that file, for any index a
\* command may carry and through no other segment.
C13_StaticsPrivateToFile ==
    [][SegmentStep /\ state_' # "ERROR" =>
           \A f \in StaticFiles :
               CurAddress \in StaticRange(f) =>
                   CurCommand.segment = "static" /\ CurCommand.file_name = f]_vars

\* the bases handed out in load order: 16, 32, ...
BasesInLoadOrder ==
    LET files == Program(program_).source_files IN
    \A k \in 1 .. Len(files) :
        /\ get_file_basename(files[k]) \in StaticFiles
        /\ Cur.memory_.static_bases_[get_file_basename(files[k])] = 16 * k

\* C13 as the code has it: a push static i / pop static i with i < 16 that
\* executes reads or writes RAM[base(file) + i], a word of the 16 reserved for
\* its file and of no other file's 16.
C13_StaticsBelow16Private ==
    [][SegmentStep /\ state_' # "ERROR" /\ CurCommand.segment = "static"
         /\ CurCommand.index < 16 =>
           /\ BasesInLoadOrder
           /\ CurAddress = Cur.memory_.static_bases_[CurCommand.file_name] + CurCommand.index
           /\ \A f \in StaticFiles :
                 CurAddress \in StaticRange(f) <=> f = CurCommand.file_name]_vars

\* A.vm has stored 5 in its static 8 (RAM[24]) and B.vm's statics start at 32
C13_StoredOwnStatic ==
    /\ engine = "vm" /\ program_ = 8
    /\ state_ \in {"RUNNING", "PAUSED"}
    /\ pc_ = 3
    /\ "B" \in DOMAIN memory_.static_bases_ /\ memory_.static_bases_["B"] = 32
    /\ Rd(memory_.ram_, 24) = 5

\* C14: executing push static i or pop static i never fails for want of a
\* static base, whichever load operation loaded the program.
C14_StaticBaseAlwaysAllocated ==
    [][SegmentStep /\ CurCommand.segment = "static" =>
           ~(state_' = "ERROR" /\ error_message_' = "Static segment not initialized")]_vars

\* a step in which executing an instruction raises a runtime error (the one
\* error that is not raised by an instruction is the missing entry point,
\* which initialize_execution reports)
RaisesError ==
    /\ state_ # "ERROR" /\ state_' = "ERROR"
    /\ error_message_' # "Entry point function not found"

\* the PC of the instruction the step executes
FailPC == IF engine = "vm" THEN Cur.pc_ ELSE pc_

ErrorKinds ==
    {"Stack underflow", "Stack overflow", "Undefined label", "Undefined function",
     "Attempted to return but no function is active",
     "Invalid ALU computation code", "Static segment not initialized",
     "Cannot write to RAM"}

-----------------------------------------------------------------------------
(* The Jack debugger: a source map, a set of Jack breakpoints, and a VM   *)
(* engine it drives.  SpecJack is the debugger with its engine; the host  *)
(* reaches the engine only through the debugger, and may call pause()     *)
(* from another thread.                                                    *)

\* std::optional: <<>> is nullopt, <<x>> holds x
None == <<>>

Some(x) == <<x>>

\* the entries of smap that satisfy the test, by position
VMHits(smap, vm_index) ==
    { i \in 1 .. Len(smap) : smap[i].vm_command_index = vm_index }

LineHits(smap, file, line) ==
    { i \in 1 .. Len(smap) : smap[i].jack_file = file /\ smap[i].jack_line = line }

Largest(S) == CHOOSE x \in S : \A y \in S : y <= x

Smallest(S) == CHOOSE x \in S : \A y \in S : x <= y

\* SourceMap::get_entry_for_vm: vm_to_entry_ keeps the last entry of an index
get_entry_for_vm(smap, vm_index) ==
    IF VMHits(smap, vm_index) = {} THEN None
    ELSE Some(smap[Largest(VMHits(smap, vm_index))])

\* SourceMap::get_vm_index_for_line: line_to_entry_ keeps the first entry of a line
get_vm_index_for_line(smap, file, line) ==
    IF LineHits(smap, file, line) = {} THEN None
    ELSE Some(smap[Smallest(LineHits(smap, file, line))].vm_command_index)

\* SourceMap::get_all_vm_indices_for_line, as the set its callers make of it
get_all_vm_indices_for_line(smap, file, line) ==
    { smap[i].vm_command_index : i \in LineHits(smap, file, line) }

\* sync_breakpoints registering the first index of each line only
sync_breakpoints_first_only(smap, jbps) ==
    UNION { { get_vm_index_for_line(smap, bp[1], bp[2])[1] } : bp \in jbps }

\* JackDebugger::sync_breakpoints: the engine's set after it
sync_breakpoints(smap, jbps) ==
    UNION { get_all_vm_indices_for_line(smap, bp[1], bp[2]) : bp \in jbps }

\* JackDebugger::get_current_source
get_current_source(smap, e) == get_entry_for_vm(smap, e.pc_)

\* function_instruction_counts[func] += executed
Bump(counts, func, executed) ==
    [g \in DOMAIN counts \cup {func} |->
        (IF g \in DOMAIN counts THEN counts[g] ELSE 0) + (IF g = func THEN executed ELSE 0)]

\* JackDebugger::update_stats
update_stats(js, e, instructions_before) ==
    LET executed == e.stats_.instructions_executed - instructions_before
        func == current_function(e.memory_)
    IN  [total_vm_instructions |-> js.total_vm_instructions + executed,
         function_instruction_counts |->
            IF func # "" THEN Bump(js.function_instruction_counts, func, executed)
            ELSE js.function_instruction_counts]

\* the JackPauseReason that run() makes of the engine's pause reason
JackReasonOf(reason) ==
    IF reason \in {"BREAKPOINT", "USER_REQUEST", "FUNCTION_ENTRY", "FUNCTION_EXIT"}
    THEN reason ELSE "STEP_COMPLETE"

JackIsIdle == jop.name = "idle"

\* file and line of an optional SourceEntry: "" and 0 when there is none
FileOf(src) == IF src = None THEN "" ELSE src[1].jack_file

LineOf(src) == IF src = None THEN 0 ELSE src[1].jack_line

\* one command executed with no breakpoint set and no pause requested
Undisturbed(e) ==
    execute_command(Program(program_), {}, [e EXCEPT !.state_ = "RUNNING"], FALSE, 0)

\* the first command mapped to one of the lines jbps that the execution
\* reaches from e after at least one command, as an optional SourceEntry
RECURSIVE BreakAhead(_, _, _, _)
BreakAhead(smap, jbps, e, fuel) ==
    IF fuel = 0 THEN None
    ELSE LET r == Undisturbed(e)
             s == get_entry_for_vm(smap, r.e.pc_)
         IN  IF ~r.ret \/ r.e.state_ # "RUNNING" THEN None
             ELSE IF s # None /\ <<FileOf(s), LineOf(s)>> \in jbps THEN s
             ELSE BreakAhead(smap, jbps, r.e, fuel - 1)

\* the first command mapped to a line other than that of cur that the
\* execution reaches from e, as an optional SourceEntry
RECURSIVE LineAhead(_, _, _, _)
LineAhead(smap, cur, e, fuel) ==
    IF fuel = 0 THEN None
    ELSE LET r == Undisturbed(e)
             s == get_entry_for_vm(smap, r.e.pc_)
         IN  IF ~r.ret \/ r.e.state_ # "RUNNING" THEN None
             ELSE IF s # None /\ (FileOf(s) # FileOf(cur) \/ LineOf(s) # LineOf(cur)) THEN s
             ELSE LineAhead(smap, cur, r.e, fuel - 1)

\* the engine fields a JackDebugger call leaves alone unless it says otherwise
JackEngineFixed == UNCHANGED <<engine, program_, entry_point_, hdlVars, tstVars, units>>

\* a JackDebugger call that does not enter its engine
JackEngineIdle ==
    UNCHANGED <<memory_, a_register_, d_register_, pc_, state_, pause_reason_,
                pause_requested_, pause_raced, stats_, error_message_,
                error_location_, op, last, clobbered>>

\* JackDebugger::load
JackLoad(j) ==
    /\ engine = "vm" /\ IsIdle /\ JackIsIdle
    /\ program_ \in {0, Len(VMPrograms) + j}
    /\ program_' = Len(VMPrograms) + j
    /\ last' = [NoCall EXCEPT !.name = "load", !.from = state_]
    /\ state_' = "READY"
    /\ pc_' = 0
    /\ stats_' = VMStatsReset
    /\ source_map_' = ParseMapLines(<<>>, JackPrograms[j].smap)
    /\ jack_pause_reason_' = "NONE"
    /\ jack_stats_' = JackStatsReset
    /\ jlast' = [name |-> "load", ret |-> "READY"]
    /\ UNCHANGED <<engine, entry_point_, memory_, a_register_, d_register_,
                   pause_reason_, pause_requested_, pause_raced, breakpoints_,
                   error_message_, error_location_, op, clobbered,
                   jack_breakpoints_, jop, hdlVars, tstVars, units>>

\* JackDebugger::reset
JackReset ==
    /\ engine = "vm" /\ IsIdle /\ JackIsIdle
    /\ memory_' = VMMemoryReset
    /\ pc_' = 0
    /\ state_' = "READY"
    /\ pause_reason_' = "NONE"
    /\ pause_requested_' = FALSE
    /\ pause_raced' = FALSE
    /\ stats_' = VMStatsReset
    /\ error_message_' = ""
    /\ error_location_' = 0
    /\ last' = [NoCall EXCEPT !.name = "reset", !.from = state_]
    /\ clobbered' = FALSE
    /\ jack_pause_reason_' = "NONE"
    /\ jack_stats_' = JackStatsReset
    /\ breakpoints_' = sync_breakpoints(source_map_, jack_breakpoints_)
    /\ jlast' = [name |-> "reset", ret |-> "READY"]
    /\ UNCHANGED <<engine, program_, entry_point_, a_register_, d_register_, op,
                   source_map_, jack_breakpoints_, jop, hdlVars, tstVars, units>>

\* JackDebugger::add_breakpoint
JackAddBreakpoint(file, line) ==
    /\ engine = "vm" /\ IsIdle /\ JackIsIdle
    /\ Cardinality(jack_breakpoints_ \cup {<<file, line>>}) <= MaxJackBreakpoints
    /\ LET vm_index == get_vm_index_for_line(source_map_, file, line) IN
       IF vm_index = None
       THEN /\ jlast' = [name |-> "add_breakpoint", ret |-> "false"]
            /\ UNCHANGED <<jack_breakpoints_, breakpoints_>>
       ELSE /\ jack_breakpoints_' = jack_breakpoints_ \cup {<<file, line>>}
            /\ breakpoints_' = breakpoints_ \cup {vm_index[1]}
            /\ jlast' = [name |-> "add_breakpoint", ret |-> "true"]
    /\ JackEngineFixed /\ JackEngineIdle
    /\ UNCHANGED <<source_map_, jack_pause_reason_, jack_stats_, jop>>

\* JackDebugger::remove_breakpoint
JackRemoveBreakpoint(file, line) ==
    /\ engine = "vm" /\ IsIdle /\ JackIsIdle
    /\ IF <<file, line>> \notin jack_breakpoints_
       THEN /\ jlast' = [name |-> "remove_breakpoint", ret |-> "false"]
            /\ UNCHANGED <<jack_breakpoints_, breakpoints_>>
       ELSE /\ jack_breakpoints_' = jack_breakpoints_ \ {<<file, line>>}
            /\ breakpoints_' =
                 breakpoints_ \ get_all_vm_indices_for_line(source_map_, file, line)
            /\ jlast' = [name |-> "remove_breakpoint", ret |-> "true"]
    /\ JackEngineFixed /\ JackEngineIdle
    /\ UNCHANGED <<source_map_, jack_pause_reason_, jack_stats_, jop>>

\* JackDebugger::clear_breakpoints
JackClearBreakpoints ==
    /\ engine = "vm" /\ IsIdle /\ JackIsIdle
    /\ jack_breakpoints_' = {}
    /\ breakpoints_' = {}
    /\ jlast' = [name |-> "clear_breakpoints", ret |-> "true"]
    /\ JackEngineFixed /\ JackEngineIdle
    /\ UNCHANGED <<source_map_, jack_pause_reason_, jack_stats_, jop>>

\* JackDebugger::run up to the loop of the engine's run
JackRun ==
    /\ engine = "vm" /\ IsIdle /\ JackIsIdle
    /\ JackEngineFixed
    /\ UNCHANGED <<source_map_, jack_breakpoints_, jack_pause_reason_, jack_stats_>>
    /\ IF state_ \in {"HALTED", "ERROR"}
       THEN /\ jlast' = [name |-> "run", ret |-> state_]
            /\ JackEngineIdle
            /\ UNCHANGED <<breakpoints_, jop>>
       ELSE LET e0 == VMEnter(Eng) IN
            /\ breakpoints_' = sync_breakpoints(source_map_, jack_breakpoints_)
            /\ jlast' = JackNoCall
            /\ jop' = [JackIdle EXCEPT
                         !.name = "run",
                         !.instr_before = stats_.instructions_executed,
                         !.expect = BreakAhead(source_map_, jack_breakpoints_, e0, MaxInstr)]
            /\ IF ~VMCanExecute(e0) THEN Returns("run", e0)
               ELSE Continue(Started(e0), InFlight("run", 0, 0))

\* JackDebugger::run after the engine's run has returned
JackRunReturn ==
    /\ engine = "vm" /\ IsIdle /\ jop.name = "run"
    /\ jack_stats_' = update_stats(jack_stats_, Eng, jop.instr_before)
    /\ jack_pause_reason_' =
         IF state_ = "PAUSED" THEN JackReasonOf(pause_reason_) ELSE jack_pause_reason_
    /\ jop' = JackIdle
    /\ jlast' = [name |-> "run", ret |-> state_]
    /\ JackEngineFixed /\ JackEngineIdle
    /\ UNCHANGED <<breakpoints_, source_map_, jack_breakpoints_>>

\* JackDebugger::run_for up to the loop of the engine's run_for
JackRunFor(n) ==
    /\ engine = "vm" /\ IsIdle /\ JackIsIdle
    /\ JackEngineFixed
    /\ UNCHANGED <<source_map_, jack_breakpoints_, jack_pause_reason_, jack_stats_>>
    /\ IF state_ \in {"HALTED", "ERROR"}
       THEN /\ jlast' = [name |-> "run_for", ret |-> state_]
            /\ JackEngineIdle
            /\ UNCHANGED <<breakpoints_, jop>>
       ELSE LET e0 == VMEnter(Eng) IN
            /\ breakpoints_' = sync_breakpoints(source_map_, jack_breakpoints_)
            /\ jlast' = JackNoCall
            /\ jop' = [JackIdle EXCEPT
                         !.name = "run_for",
                         !.instr_before = stats_.instructions_executed]
            /\ IF ~VMCanExecute(e0) THEN ReturnsFrom("run_for", e0, n)
               ELSE IF n = 0 THEN ReturnsFrom("run_for", AfterRunFor(Started(e0)), n)
               ELSE Continue(Started(e0), InFlight("run_for", n, 0))

\* the engine's part of a run_for the debugger started
JackRunForIter == jop.name = "run_for" /\ VMRunForIter

\* JackDebugger::run_for after the engine's run_for has returned
JackRunForReturn ==
    /\ engine = "vm" /\ IsIdle /\ jop.name = "run_for"
    /\ jack_stats_' = update_stats(jack_stats_, Eng, jop.instr_before)
    /\ jack_pause_reason_' =
         IF state_ = "PAUSED" /\ pause_reason_ = "BREAKPOINT" THEN "BREAKPOINT"
         ELSE jack_pause_reason_
    /\ jop' = JackIdle
    /\ jlast' = [name |-> "run_for", ret |-> state_]
    /\ JackEngineFixed /\ JackEngineIdle
    /\ UNCHANGED <<breakpoints_, source_map_, jack_breakpoints_>>

\* JackDebugger::step up to its loop
JackStep ==
    /\ engine = "vm" /\ IsIdle /\ JackIsIdle
    /\ JackEngineFixed /\ JackEngineIdle
    /\ UNCHANGED <<breakpoints_, source_map_, jack_breakpoints_, jack_pause_reason_,
                   jack_stats_>>
    /\ IF state_ \in {"HALTED", "ERROR"}
       THEN /\ jlast' = [name |-> "step", ret |-> state_]
            /\ UNCHANGED jop
       ELSE /\ jlast' = JackNoCall
            /\ jop' = [JackIdle EXCEPT
                         !.name = "step",
                         !.current_source = get_current_source(source_map_, Eng),
                         !.instr_before = stats_.instructions_executed,
                         !.expect = LineAhead(source_map_,
                                              get_current_source(source_map_, Eng),
                                              VMEnter(Eng), MaxInstr)]

\* what one iteration of the loop of JackDebugger::step does once engine_.step()
\* has left the engine in state e
JackStepLoop(e) ==
    LET new_source == get_current_source(source_map_, e)
        moved == /\ new_source # None
                 /\ \/ FileOf(new_source) # FileOf(jop.current_source)
                    \/ LineOf(new_source) # LineOf(jop.current_source)
        single == jop.current_source = None /\ new_source = None
    IN  /\ Returns("step", e)
        /\ IF e.state_ \in {"HALTED", "ERROR"}
           THEN /\ jack_stats_' = update_stats(jack_stats_, e, jop.instr_before)
                /\ jlast' = [name |-> "step", ret |-> e.state_]
                /\ jop' = JackIdle
                /\ UNCHANGED jack_pause_reason_
           ELSE IF moved \/ single
           THEN /\ jack_stats_' = update_stats(jack_stats_, e, jop.instr_before)
                /\ jack_pause_reason_' = "STEP_COMPLETE"
                /\ jlast' = [name |-> "step", ret |-> e.state_]
                /\ jop' = JackIdle
           ELSE /\ jop' = [jop EXCEPT !.stuck = (e = Eng)]
                /\ UNCHANGED <<jack_stats_, jack_pause_reason_, jlast>>

\* one iteration of the loop of JackDebugger::step: a whole VMEngine::step
JackStepIter ==
    /\ engine = "vm" /\ IsIdle /\ jop.name = "step" /\ Budget
    /\ JackEngineFixed
    /\ UNCHANGED <<breakpoints_, source_map_, jack_breakpoints_>>
    /\ LET e0 == VMEnter(Eng) IN
       IF ~VMCanExecute(e0) THEN JackStepLoop(e0)
       ELSE \E seen \in PauseReads, u \in UBWords :
              JackStepLoop(AfterStep(VMCore(Stepping(e0), seen, u).e))

\* JackDebugger::step_out up to its loop
JackStepOut ==
    /\ engine = "vm" /\ IsIdle /\ JackIsIdle
    /\ JackEngineFixed /\ JackEngineIdle
    /\ UNCHANGED <<breakpoints_, source_map_, jack_breakpoints_, jack_pause_reason_,
                   jack_stats_>>
    /\ IF state_ \in {"HALTED", "ERROR"}
       THEN /\ jlast' = [name |-> "step_out", ret |-> state_]
            /\ UNCHANGED jop
       ELSE /\ jlast' = JackNoCall
            /\ jop' = [JackIdle EXCEPT
                         !.name = "step_out",
                         !.initial_depth = Depth(Eng),
                         !.instr_before = stats_.instructions_executed]

\* the loop of step_out leaving at a mapped command or at any depth
JackStepOutLoop_any_depth(e) ==
    /\ Returns("step", e)
    /\ IF e.state_ \in {"HALTED", "ERROR"}
       THEN /\ jack_stats_' = update_stats(jack_stats_, e, jop.instr_before)
            /\ jlast' = [name |-> "step_out", ret |-> e.state_]
            /\ jop' = JackIdle
            /\ UNCHANGED jack_pause_reason_
       ELSE IF get_current_source(source_map_, e) # None
       THEN /\ jack_stats_' = update_stats(jack_stats_, e, jop.instr_before)
            /\ jack_pause_reason_' = "STEP_COMPLETE"
            /\ jlast' = [name |-> "step_out", ret |-> e.state_]
            /\ jop' = JackIdle
       ELSE /\ jop' = [jop EXCEPT !.stuck = (e = Eng)]
            /\ UNCHANGED <<jack_stats_, jack_pause_reason_, jlast>>

\* what one iteration of the loop of JackDebugger::step_out does once
\* engine_.step() has left the engine in state e
JackStepOutLoop(e) ==
    /\ Returns("step", e)
    /\ IF e.state_ \in {"HALTED", "ERROR"}
       THEN /\ jack_stats_' = update_stats(jack_stats_, e, jop.instr_before)
            /\ jlast' = [name |-> "step_out", ret |-> e.state_]
            /\ jop' = JackIdle
            /\ UNCHANGED jack_pause_reason_
       ELSE IF Depth(e) < jop.initial_depth /\ get_current_source(source_map_, e) # None
       THEN /\ jack_stats_' = update_stats(jack_stats_, e, jop.instr_before)
            /\ jack_pause_reason_' = "STEP_COMPLETE"
            /\ jlast' = [name |-> "step_out", ret |-> e.state_]
            /\ jop' = JackIdle
       ELSE /\ jop' = [jop EXCEPT !.stuck = (e = Eng)]
            /\ UNCHANGED <<jack_stats_, jack_pause_reason_, jlast>>

\* one iteration of the loop of JackDebugger::step_out: a whole VMEngine::step
JackStepOutIter ==
    /\ engine = "vm" /\ IsIdle /\ jop.name = "step_out" /\ Budget
    /\ JackEngineFixed
    /\ UNCHANGED <<breakpoints_, source_map_, jack_breakpoints_>>
    /\ LET e0 == VMEnter(Eng) IN
       IF ~VMCanExecute(e0) THEN JackStepOutLoop(e0)
       ELSE \E seen \in PauseReads, u \in UBWords :
              JackStepOutLoop(AfterStep(VMCore(Stepping(e0), seen, u).e))

\* the engine's part of a run the debugger started
JackRunIter == jop.name = "run" /\ VMRunIter

\* pause() forwarded to the engine, from any thread
JackPause == engine = "vm" /\ Pause

InitJack == Init /\ engine = "vm"

NextJack ==
    \/ \E j \in 1 .. Len(JackPrograms) : JackLoad(j)
    \/ JackReset
    \/ \E bp \in JackLines : JackAddBreakpoint(bp[1], bp[2])
    \/ \E bp \in JackLines : JackRemoveBreakpoint(bp[1], bp[2])
    \/ JackClearBreakpoints
    \/ JackRun
    \/ JackRunIter
    \/ JackRunReturn
    \/ \E n \in {0, MaxRunFor} : JackRunFor(n)
    \/ JackRunForIter
    \/ JackRunForReturn
    \/ JackStep
    \/ JackStepIter
    \/ JackStepOut
    \/ JackStepOutIter
    \/ JackPause

SpecJack == InitJack /\ [][NextJack]_vars

-----------------------------------------------------------------------------
(* C16: the engine's breakpoint set against the Jack breakpoint set        *)

\* every VM index mapped from a line of the Jack breakpoint set
AllIndices ==
    { source_map_[i].vm_command_index :
        i \in { k \in 1 .. Len(source_map_) :
                  <<source_map_[k].jack_file, source_map_[k].jack_line>> \in jack_breakpoints_ } }

\* the first VM index mapped from each line of the Jack breakpoint set
FirstIndices ==
    { get_vm_index_for_line(source_map_, bp[1], bp[2])[1] : bp \in jack_breakpoints_ }

\* a call of add_breakpoint that returns false
FailedAdd ==
    /\ \E bp \in JackLines : JackAddBreakpoint(bp[1], bp[2])
    /\ jlast'.ret = "false"

\* a call that runs sync_breakpoints: reset, and run past its state test
Syncs == JackReset \/ (JackRun /\ jop'.name = "run")

\* a call that takes lines out of the Jack breakpoint set
Removes ==
    \/ JackClearBreakpoints
    \/ \E bp \in JackLines : JackRemoveBreakpoint(bp[1], bp[2])

-----------------------------------------------------------------------------
(* C15: run() of the Jack debugger and Jack breakpoints                    *)

\* the Jack line of the engine's current command
CurrentLine == <<FileOf(get_current_source(source_map_, Eng)),
                 LineOf(get_current_source(source_map_, Eng))>>

\* run() returns without a pause request having stopped it
RunReturns == JackRunReturn /\ pause_reason_ # "USER_REQUEST"

\* C15: when the execution from the state in which run() was called reaches a
\* command of a Jack breakpoint line, run() returns PAUSED with Jack pause
\* reason BREAKPOINT at the first such line; with no Jack breakpoint set, run()
\* returns HALTED
C15_RunPausesAtBreakpointLine ==
    [][RunReturns =>
         /\ jop.expect # None =>
              /\ state_ = "PAUSED"
              /\ jack_pause_reason_' = "BREAKPOINT"
              /\ CurrentLine = <<FileOf(jop.expect), LineOf(jop.expect)>>
         /\ (jack_breakpoints_ = {} /\ jlast.name # "none") => state_ = "HALTED"]_vars

-----------------------------------------------------------------------------
(* C17: step() of the Jack debugger                                        *)

\* an iteration of the loop of step(), in a call that started on a mapped
\* line from which the execution reaches a command of another mapped line
StepIteration ==
    JackStepIter /\ jop.current_source # None /\ jop.expect # None

\* C17: a step() started on a source-mapped line, when the execution reaches a
\* command mapped to another line, executes one VM command in every iteration of
\* its loop that a pause request does not take, stays in the loop only while
\* it is not yet at such a command, and returns PAUSED at the first command
\* mapped to another line that the execution reaches
C17_StepLandsOnNextLine ==
    [][StepIteration =>
         /\ (jop'.name = "step" /\ ~pause_requested_) =>
              /\ stats_'.instructions_executed = stats_.instructions_executed + 1
              /\ get_entry_for_vm(source_map_, pc_') # jop.expect
         /\ jop'.name = "idle" =>
              /\ state_' = "PAUSED"
              /\ get_entry_for_vm(source_map_, pc_') = jop.expect]_vars

-----------------------------------------------------------------------------
(* User-defined HDL chips: the wiring and the evaluation order that the   *)
(* constructor HDLChip(def, resolver) computes.  Pins are single-bit and  *)
(* connections name whole pins; parts are indexed from 0 as in the code.  *)

\* largest number of parts of a chip definition
MaxParts == 3

\* the registry of built-in chips, as far as the definitions here use it
BuiltinDefs ==
    [n \in {"Not", "And"} |->
        IF n = "Not"
        THEN [name |-> "Not", inputs |-> <<"in">>, outputs |-> <<"out">>, parts |-> <<>>]
        ELSE [name |-> "And", inputs |-> <<"a", "b">>, outputs |-> <<"out">>, parts |-> <<>>]]

\* the ChipResolver of HDLEngine: <<>> for a chip it does not find
resolver(chip_name) ==
    IF chip_name \in DOMAIN BuiltinDefs THEN Some(BuiltinDefs[chip_name]) ELSE None

\* HDLConnection: the part's pin = the chip's pin, wire or constant
Conn(internal, external) == [internal |-> internal, external |-> external]

\* parts a definition is made of: Not(in=x, out=y), And(a=w1, b=w2, out=out),
\* Not(in=true, out=w1), and a part of a chip that does not exist
NotPart(x, y) == [chip_name |-> "Not", connections |-> <<Conn("in", x), Conn("out", y)>>]

AndPart(x1, x2, y) ==
    [chip_name |-> "And", connections |-> <<Conn("a", x1), Conn("b", x2), Conn("out", y)>>]

PartChoices ==
    { NotPart(x, y) : x \in {"a", "out", "w1", "w2"}, y \in {"out", "w1", "w2"} }
      \cup { AndPart("w1", "w2", "out"), NotPart("true", "w1"),
             [chip_name |-> "Nope", connections |-> <<>>] }

\* CHIP T { IN a; OUT out; PARTS: ... } with one to MaxParts parts
ChipDefs ==
    { [name |-> "T", inputs |-> <<"a">>, outputs |-> <<"out">>, parts |-> ps] :
        ps \in UNION { [1 .. k -> PartChoices] : k \in 1 .. MaxParts } }

Range(seq) == { seq[i] : i \in 1 .. Len(seq) }

\* HDLChip::is_chip_input, is_chip_output
is_chip_input(def, name) == name \in Range(def.inputs)

is_chip_output(def, name) == name \in Range(def.outputs)

\* the WireMapping build_wiring makes of one connection of part pi
Mapping(pi, sub_def, conn) ==
    [part_index |-> pi, part_pin |-> conn.internal, chip_pin |-> conn.external,
     is_input |-> \/ conn.external \in {"true", "false"}
                  \/ conn.internal \in Range(sub_def.inputs)]

\* the mappings of the parts from index pi on, in source order
RECURSIVE PartMappings(_, _)
PartMappings(def, pi) ==
    IF pi >= Len(def.parts) THEN <<>>
    ELSE LET part == def.parts[pi + 1]
             sub_def == resolver(part.chip_name)[1]
         IN  [i \in 1 .. Len(part.connections) |-> Mapping(pi, sub_def, part.connections[i])]
               \o PartMappings(def, pi + 1)

IsInput(m) == m.is_input

IsOutput(m) == ~m.is_input

\* HDLChip::build_wiring: throws at the first part whose chip the resolver does
\* not find
build_wiring(def) ==
    IF \E i \in 1 .. Len(def.parts) : resolver(def.parts[i].chip_name) = None
    THEN [ok |-> FALSE, input_mappings |-> <<>>, output_mappings |-> <<>>]
    ELSE [ok |-> TRUE,
          input_mappings |-> SelectSeq(PartMappings(def, 0), IsInput),
          output_mappings |-> SelectSeq(PartMappings(def, 0), IsOutput)]

\* part_outputs[a] and part_inputs[b] of compute_eval_order
part_outputs(outs, a) == { m.chip_pin : m \in { x \in Range(outs) : x.part_index = a } }

part_inputs(def, ins, b) ==
    { m.chip_pin : m \in { x \in Range(ins) :
                            /\ x.part_index = b
                            /\ x.chip_pin \notin {"true", "false"}
                            /\ ~is_chip_input(def, x.chip_pin)
                            /\ ~is_chip_output(def, x.chip_pin) } }

\* how many times b stands in adj[a]
Edges(def, ins, outs, a, b) ==
    IF a = b THEN 0
    ELSE Cardinality(part_inputs(def, ins, b) \cap part_outputs(outs, a))

RECURSIVE Sum(_, _)
Sum(f, S) == IF S = {} THEN 0 ELSE LET x == CHOOSE x \in S : TRUE IN f[x] + Sum(f, S \ {x})

\* the elements of a set of numbers in increasing order
RECURSIVE Ascending(_)
Ascending(S) == IF S = {} THEN <<>> ELSE <<Smallest(S)>> \o Ascending(S \ {Smallest(S)})

\* Kahn's algorithm as compute_eval_order runs it: q is the queue, deg the
\* in_degree vector, order the eval_order_ built so far
RECURSIVE Kahn(_, _, _, _, _, _)
Kahn(def, ins, outs, q, deg, order) ==
    IF q = <<>> THEN order
    ELSE LET u == Head(q)
             deg2 == [v \in DOMAIN deg |-> deg[v] - Edges(def, ins, outs, u, v)]
             freed == { v \in DOMAIN deg : Edges(def, ins, outs, u, v) > 0 /\ deg2[v] = 0 }
         IN  Kahn(def, ins, outs, Tail(q) \o Ascending(freed), deg2, Append(order, u))

\* HDLChip::compute_eval_order
compute_eval_order(def, ins, outs) ==
    LET n == Len(def.parts)
        in_degree == [b \in 0 .. n - 1 |->
                        Sum([a \in 0 .. n - 1 |-> Edges(def, ins, outs, a, b)], 0 .. n - 1)]
        sorted == Kahn(def, ins, outs, Ascending({ i \in 0 .. n - 1 : in_degree[i] = 0 }),
                       in_degree, <<>>)
    IN  IF n = 0 THEN <<>>
        ELSE IF Len(sorted) # n THEN [i \in 1 .. n |-> i - 1]
        ELSE sorted

\* HDLChip::init_pins, and the internal wires build_wiring adds: every pin 0
wired_pins(def, mappings) ==
    [n \in (Range(def.inputs) \cup Range(def.outputs)
              \cup { m.chip_pin : m \in Range(mappings) }) \ {"true", "false"} |-> 0]

\* the value build_wiring and propagate_inputs store for a constant on a pin
\* of width 1
constant_value(chip_pin) == IF chip_pin = "true" THEN 1 ELSE 0

\* the constants connected to pin n of part pi, in source order
constants_on(ins, pi, n) ==
    SelectSeq(ins, LAMBDA m : /\ m.part_index = pi
                              /\ m.part_pin = n
                              /\ m.chip_pin \in {"true", "false"})

\* the sub-chips build_wiring creates: every pin 0, constants stored on the
\* pins they are connected to
wired_sub_chips(def, ins) ==
    [i \in 1 .. Len(def.parts) |->
        LET sub_def == resolver(def.parts[i].chip_name)[1]
        IN  [n \in Range(sub_def.inputs) \cup Range(sub_def.outputs) |->
                LET cs == constants_on(ins, i - 1, n)
                IN  IF cs = <<>> THEN 0 ELSE constant_value(cs[Len(cs)].chip_pin)]]

\* HDLChip::HDLChip(def, resolver): init_pins, build_wiring, compute_eval_order
HDLConstruct ==
    /\ chip_state = "defined"
    /\ LET w == build_wiring(def_) IN
       IF ~w.ok
       THEN /\ chip_state' = "threw"
            /\ UNCHANGED <<input_mappings_, output_mappings_, eval_order_, pins_,
                           sub_chips_>>
       ELSE /\ chip_state' = "constructed"
            /\ pins_' = wired_pins(def_, w.input_mappings \o w.output_mappings)
            /\ sub_chips_' = wired_sub_chips(def_, w.input_mappings)
            /\ input_mappings_' = w.input_mappings
            /\ output_mappings_' = w.output_mappings
            /\ eval_order_' = compute_eval_order(def_, w.input_mappings, w.output_mappings)
    /\ UNCHANGED <<engine, program_, entry_point_, memory_, a_register_, d_register_,
                   pc_, state_, pause_reason_, pause_requested_, pause_raced, stats_,
                   breakpoints_, error_message_, error_location_, op, last, clobbered,
                   jackVars, tstVars, units, def_, evals_>>

\* a chip definition as HDLParser hands it to the constructor
InitHDL ==
    /\ EngineInit /\ engine = "vm"
    /\ JackInit
    /\ TstInit
    /\ SegInit
    /\ MemInit
    /\ PinInit
    /\ SeqInit
    /\ def_ \in ChipDefs
    /\ input_mappings_ = <<>>
    /\ output_mappings_ = <<>>
    /\ eval_order_ = <<>>
    /\ chip_state = "defined"
    /\ pins_ = <<>>
    /\ sub_chips_ = <<>>
    /\ evals_ = [count |-> 0, before |-> <<>>]

NextHDL == HDLConstruct

SpecHDL == InitHDL /\ [][NextHDL]_vars

-----------------------------------------------------------------------------
(* C19: the evaluation order and the wires                                 *)

PartIndices == 0 .. Len(def_.parts) - 1

\* part a writes wire or pin w; part b reads it
Writes(a, w) == \E m \in Range(output_mappings_) : m.part_index = a /\ m.chip_pin = w

Reads(b, w) == \E m \in Range(input_mappings_) : m.part_index = b /\ m.chip_pin = w

\* wires and pins that parts are connected to, the constants aside
Wires ==
    { m.chip_pin : m \in Range(input_mappings_) \cup Range(output_mappings_) }
      \ {"true", "false"}

\* place of part p in the evaluation order
Place(p) == CHOOSE i \in 1 .. Len(eval_order_) : eval_order_[i] = p

ReadersAfterWriters(ws) ==
    \A w \in ws : \A a \in PartIndices, b \in PartIndices :
        (a # b /\ Writes(a, w) /\ Reads(b, w)) => Place(a) < Place(b)

\* C19: in a chip that was constructed, for every wire or chip pin that one part
\* writes and another reads, the reader comes after the writer in the
\* evaluation order (a chip with a cycle is not constructed)
C19_ReadersAfterWriters ==
    chip_state = "constructed" => ReadersAfterWriters(Wires)

\* what the order does guarantee: every part stands in it once, and unless it
\* is the source order, the readers of every internal wire come after its writers
EvalOrderInternalWires ==
    chip_state = "constructed" =>
        /\ Len(eval_order_) = Len(def_.parts)
        /\ Range(eval_order_) = PartIndices
        /\ \/ eval_order_ = [i \in 1 .. Len(def_.parts) |-> i - 1]
           \/ ReadersAfterWriters({ w \in Wires : ~is_chip_input(def_, w)
                                                  /\ ~is_chip_output(def_, w) })

-----------------------------------------------------------------------------
(* The .tst runner (TstRunner) on scripts for combinational chips.  A line *)
(* of text is the sequence of its fields; output_ is the sequence of the   *)
(* lines of the output so far.                                             *)

\* TstCommand
TstLoad(chip_name) == [type |-> "LOAD", arg1 |-> chip_name, arg2 |-> "", columns |-> <<>>]

TstOutputList(columns) ==
    [type |-> "OUTPUT_LIST", arg1 |-> "", arg2 |-> "", columns |-> columns]

TstSet(pin, value) == [type |-> "SET", arg1 |-> pin, arg2 |-> value, columns |-> <<>>]

TstEval == [type |-> "EVAL", arg1 |-> "", arg2 |-> "", columns |-> <<>>]

TstOutput == [type |-> "OUTPUT", arg1 |-> "", arg2 |-> "", columns |-> <<>>]

\* OutputColumn pin%B1.1.1
Column(pin_name) ==
    [pin_name |-> pin_name, mode |-> "B", left_pad |-> 1, width |-> 1, right_pad |-> 1]

\* load Not.hdl, output-list in%B1.1.1 out%B1.1.1; three rounds of
\* set in v, eval, output;
TstNotScript ==
    << TstLoad("Not"), TstOutputList(<<Column("in"), Column("out")>>),
       TstSet("in", "0"), TstEval, TstOutput,
       TstSet("in", "1"), TstEval, TstOutput,
       TstSet("in", "0"), TstEval, TstOutput >>

\* a script that outputs before it has loaded a chip
TstNoChipScript == << TstOutputList(<<Column("in")>>), TstOutput >>

TstScripts == { TstNotScript, TstNoChipScript }

\* a line of a comparison file: "|" and fields, here with any trailing blanks
CmpHeader == <<"|", "in ", "|", "out", "|">>

CmpRow(i, o) == <<"|", i, "|", o, "|">>

\* comparison files for TstNotScript: the right one (with a blank after a row
\* and an empty last line), one wrong in its first row, one wrong in rows one
\* and two, one wrong in row two, one with the header and one row only
TstCompareData ==
    { << CmpHeader, CmpRow(" 0 ", " 1 ") \o <<" ">>, CmpRow(" 1 ", " 0 "),
         CmpRow(" 0 ", " 1 "), <<>> >>,
      << CmpHeader, CmpRow(" 0 ", " 0 "), CmpRow(" 1 ", " 0 "), CmpRow(" 0 ", " 1 ") >>,
      << CmpHeader, CmpRow(" 0 ", " 0 "), CmpRow(" 1 ", " 1 "), CmpRow(" 0 ", " 1 ") >>,
      << CmpHeader, CmpRow(" 0 ", " 1 "), CmpRow(" 1 ", " 1 "), CmpRow(" 0 ", " 1 ") >>,
      << CmpHeader, CmpRow(" 0 ", " 1 ") >> }

\* set_compare_data: trailing blanks of a line dropped
RECURSIVE TrimTrailing(_)
TrimTrailing(line) ==
    IF line # <<>> /\ line[Len(line)] \in {" ", "\r"}
    THEN TrimTrailing(SubSeq(line, 1, Len(line) - 1))
    ELSE line

NonEmpty(line) == line # <<>>

\* set_compare_data: the lines trimmed, the empty ones skipped
SplitCompareLines(cmp_data) ==
    SelectSeq([i \in 1 .. Len(cmp_data) |-> TrimTrailing(cmp_data[i])], NonEmpty)

\* TstRunner::parse_value for the values the scripts set
parse_value(str) == IF str = "1" THEN 1 ELSE 0

\* TstRunner::format_value, mode B with width 1 and pads 1, 1
format_value(value, col) == IF value % 2 = 1 THEN " 1 " ELSE " 0 "

\* the chip the resolver makes for a name: builtin Not with its pins at 0
ResolveChip(chip_name) ==
    IF chip_name = "Not" THEN Some([in |-> 0, out |-> 0]) ELSE None

\* eval_Not
eval_Not(pins) == [pins EXCEPT !.out = IF pins.in # 0 THEN 0 ELSE 1]

RECURSIVE RowFields(_, _)
RowFields(pins, cols) ==
    IF cols = <<>> THEN <<>>
    ELSE <<format_value(pins[Head(cols).pin_name], Head(cols)), "|">>
           \o RowFields(pins, Tail(cols))

RECURSIVE HeaderFields(_)
HeaderFields(cols) ==
    IF cols = <<>> THEN <<>>
    ELSE LET col == Head(cols)
             name == IF col.pin_name = "in" THEN "in " ELSE col.pin_name
         IN  <<name, "|">> \o HeaderFields(Tail(cols))

\* the state of a runner, as one record
Tst ==
    [pos_ |-> pos_, output_ |-> output_, output_row_ |-> output_row_,
     output_columns_ |-> output_columns_, comparison_error_ |-> comparison_error_,
     chip_ |-> chip_]

\* TstRunner::compare_output
compare_output(t, cmp_lines) ==
    LET cmp_index == t.output_row_
        actual_row == t.output_[Len(t.output_)]
    IN  IF cmp_lines = <<>> \/ cmp_index >= Len(cmp_lines) THEN t
        ELSE IF actual_row # cmp_lines[cmp_index + 1]
        THEN [t EXCEPT !.comparison_error_ =
                 <<[line |-> cmp_index + 1, expected |-> cmp_lines[cmp_index + 1],
                    actual |-> actual_row]>>]
        ELSE t

\* what a command leaves: the runner, and the message of what it threw
Ran(t) == [t |-> t, threw |-> ""]

Threw(t, msg) == [t |-> t, threw |-> msg]

\* TstRunner::do_output
do_output(t, cmp_lines) ==
    IF t.chip_ = None THEN Threw(t, "No chip loaded")
    ELSE IF \E i \in 1 .. Len(t.output_columns_) :
               t.output_columns_[i].pin_name \notin DOMAIN t.chip_[1]
    THEN Threw(t, "Unknown pin")
    ELSE Ran(compare_output(
               [t EXCEPT !.output_ = Append(@, <<"|">> \o RowFields(t.chip_[1], t.output_columns_)),
                         !.output_row_ = @ + 1],
               cmp_lines))

\* TstRunner::execute
execute(t, cmd, cmp_lines) ==
    CASE cmd.type = "LOAD" ->
           IF ResolveChip(cmd.arg1) = None THEN Threw(t, "Could not load chip")
           ELSE Ran([t EXCEPT !.chip_ = ResolveChip(cmd.arg1)])
      [] cmd.type = "OUTPUT_LIST" ->
           Ran([t EXCEPT !.output_columns_ = cmd.columns,
                         !.output_ = Append(@, <<"|">> \o HeaderFields(cmd.columns))])
      [] cmd.type = "SET" ->
           IF t.chip_ = None THEN Threw(t, "No chip loaded")
           ELSE IF cmd.arg1 \notin DOMAIN t.chip_[1] THEN Threw(t, "Unknown pin")
           ELSE Ran([t EXCEPT !.chip_ = Some([t.chip_[1] EXCEPT ![cmd.arg1] = parse_value(cmd.arg2)])])
      [] cmd.type = "EVAL" ->
           IF t.chip_ = None THEN Threw(t, "No chip loaded")
           ELSE Ran([t EXCEPT !.chip_ = Some(eval_Not(t.chip_[1]))])
      [] cmd.type = "OUTPUT" -> do_output(t, cmp_lines)

\* execute(commands_[pos_]); pos_++: an exception leaves before the increment
ExecuteNext(t) ==
    LET x == execute(t, commands_[t.pos_ + 1], compare_lines_) IN
    IF x.threw # "" THEN x ELSE Ran([x.t EXCEPT !.pos_ = @ + 1])

SetTst(t) ==
    /\ pos_' = t.pos_
    /\ output_' = t.output_
    /\ output_row_' = t.output_row_
    /\ output_columns_' = t.output_columns_
    /\ comparison_error_' = t.comparison_error_
    /\ chip_' = t.chip_

\* what no TstRunner operation touches
TstOnly ==
    UNCHANGED <<engine, program_, entry_point_, memory_, a_register_, d_register_,
                pc_, state_, pause_reason_, pause_requested_, pause_raced, stats_,
                breakpoints_, error_message_, error_location_, op, last, clobbered,
                jackVars, hdlVars, units, hdl_state_>>

\* TstRunner::parse
TstParse(script) ==
    /\ top = "idle"
    /\ commands_' = script
    /\ SetTst([Tst EXCEPT !.pos_ = 0, !.output_ = <<>>, !.output_row_ = 0,
                          !.comparison_error_ = <<>>])
    /\ tlast' = [name |-> "parse", ret |-> FALSE, threw |-> "", cmp |-> FALSE]
    /\ TstOnly /\ UNCHANGED <<compare_lines_, top>>

\* TstRunner::set_compare_data
TstSetCompareData(cmp_data) ==
    /\ top = "idle"
    /\ compare_lines_' = SplitCompareLines(cmp_data)
    /\ tlast' = [name |-> "set_compare_data", ret |-> FALSE, threw |-> "", cmp |-> FALSE]
    /\ TstOnly
    /\ UNCHANGED <<commands_, pos_, output_, output_row_, output_columns_,
                   comparison_error_, chip_, top>>

\* TstRunner::reset
TstReset ==
    /\ top = "idle"
    /\ SetTst([Tst EXCEPT !.pos_ = 0, !.output_ = <<>>, !.output_row_ = 0,
                          !.comparison_error_ = <<>>,
                          !.chip_ = IF chip_ = None THEN None
                                    ELSE Some([p \in DOMAIN chip_[1] |-> 0])])
    /\ tlast' = [name |-> "reset", ret |-> FALSE, threw |-> "", cmp |-> FALSE]
    /\ TstOnly /\ UNCHANGED <<commands_, compare_lines_, top>>

\* TstRunner::step
TstStep ==
    /\ top = "idle"
    /\ TstOnly /\ UNCHANGED <<commands_, compare_lines_, top>>
    /\ IF pos_ >= Len(commands_)
       THEN /\ tlast' = [name |-> "step", ret |-> FALSE, threw |-> "", cmp |-> FALSE]
            /\ SetTst(Tst)
       ELSE LET x == ExecuteNext(Tst) IN
            /\ SetTst(x.t)
            /\ tlast' = [name |-> "step", ret |-> x.threw = "" /\ x.t.pos_ < Len(commands_),
                         threw |-> x.threw, cmp |-> FALSE]

\* TstRunner::run_all up to its loop
TstRunAll ==
    /\ top = "idle"
    /\ top' = IF pos_ < Len(commands_) THEN "run_all" ELSE "idle"
    /\ tlast' = [name |-> "run_all", ret |-> FALSE, threw |-> "", cmp |-> FALSE]
    /\ TstOnly
    /\ UNCHANGED <<commands_, pos_, output_, output_row_, output_columns_,
                   compare_lines_, comparison_error_, chip_>>

\* one iteration of the loop of run_all
TstRunAllIter ==
    /\ top = "run_all"
    /\ TstOnly /\ UNCHANGED <<commands_, compare_lines_>>
    /\ LET x == ExecuteNext(Tst) IN
       /\ SetTst(x.t)
       /\ tlast' = [name |-> "run_all", ret |-> FALSE, threw |-> x.threw, cmp |-> FALSE]
       /\ top' = IF \/ x.threw # ""
                    \/ x.t.comparison_error_ # <<>>
                    \/ x.t.pos_ >= Len(commands_)
                 THEN "idle" ELSE "run_all"

\* TstRunner::parse on already parsed commands: what it clears
Parsed(t) ==
    [t EXCEPT !.pos_ = 0, !.output_ = <<>>, !.output_row_ = 0, !.comparison_error_ = <<>>]

\* TstRunner::run_all as one call, on the commands and comparison lines given
RECURSIVE run_all(_, _, _)
run_all(t, commands, cmp_lines) ==
    IF t.pos_ >= Len(commands) THEN Ran(t)
    ELSE LET x == execute(t, commands[t.pos_ + 1], cmp_lines) IN
         IF x.threw # "" THEN x
         ELSE LET t1 == [x.t EXCEPT !.pos_ = @ + 1] IN
              IF t1.comparison_error_ # <<>> THEN Ran(t1)
              ELSE run_all(t1, commands, cmp_lines)

\* the comparison lines run_test_string runs with: set_compare_data is called
\* only for a non-empty cmp
compare_lines_for(cmp) ==
    IF cmp # <<>> THEN SplitCompareLines(cmp) ELSE compare_lines_

\* HDLEngine::run_test_string(tst, cmp): set_compare_data if cmp is not empty,
\* parse, run_all, and the state from what run_all threw or recorded
HDLRunTestString(tst, cmp) ==
    /\ top = "idle"
    /\ LET x == run_all(Parsed(Tst), tst, compare_lines_for(cmp)) IN
       /\ compare_lines_' = compare_lines_for(cmp)
       /\ commands_' = tst
       /\ SetTst(x.t)
       /\ hdl_state_' = IF x.threw # "" \/ x.t.comparison_error_ # <<>>
                        THEN "ERROR" ELSE "HALTED"
       /\ tlast' = [name |-> "run_test_string", ret |-> FALSE, threw |-> x.threw,
                    cmp |-> cmp # <<>>]
    /\ UNCHANGED <<engine, program_, entry_point_, memory_, a_register_, d_register_,
                   pc_, state_, pause_reason_, pause_requested_, pause_raced, stats_,
                   breakpoints_, error_message_, error_location_, op, last, clobbered,
                   jackVars, hdlVars, units, top>>

InitTst == Init /\ engine = "vm"

NextTst ==
    \/ \E script \in TstScripts : TstParse(script)
    \/ \E cmp_data \in TstCompareData : TstSetCompareData(cmp_data)
    \/ TstReset
    \/ TstStep
    \/ TstRunAll
    \/ TstRunAllIter
    \/ \E script \in TstScripts, cmp \in TstCompareData \cup {<<>>} :
          HDLRunTestString(script, cmp)

SpecTst == InitTst /\ [][NextTst]_vars

-----------------------------------------------------------------------------
(* C20: comparison of the output rows                                      *)

\* a step of the runner that executes, or would execute, a script command
Drives == TstStep \/ TstRunAllIter

\* the step emitted an output row that has a comparison line
ComparedRow ==
    /\ output_row_' = output_row_ + 1
    /\ output_row_' < Len(compare_lines_)

\* the comparison failure for the row just emitted, <<>> if it matches
Mismatch ==
    IF output_'[Len(output_')] # compare_lines_[output_row_' + 1]
    THEN <<[line |-> output_row_' + 1, expected |-> compare_lines_[output_row_' + 1],
            actual |-> output_'[Len(output_')]]>>
    ELSE <<>>

\* C20: with comparison data, each emitted row is compared with its comparison
\* line and a mismatch is recorded with line number, expected and actual text;
\* once a comparison failure is recorded, neither run_all nor step executes a
\* further command, and the failure recorded is not replaced
C20_FirstMismatchStops ==
    [][Drives =>
         /\ (comparison_error_ = <<>> /\ ComparedRow) => comparison_error_' = Mismatch
         /\ comparison_error_ # <<>> =>
              /\ pos_' = pos_
              /\ output_' = output_
              /\ comparison_error_' = comparison_error_]_vars

\* what holds of both drivers: a row with a comparison line is compared, and a
\* failure stays recorded until parse or reset unless a later row replaces it
ComparisonRecorded ==
    [][Drives =>
         /\ ComparedRow =>
              comparison_error_' = IF Mismatch # <<>> THEN Mismatch ELSE comparison_error_
         /\ ~ComparedRow => comparison_error_' = comparison_error_]_vars

\* run_all returns at the first comparison failure of its own loop
RunAllStopsAtFailure ==
    [][(TstRunAllIter /\ comparison_error_' # <<>>) => top' = "idle"]_vars

\* ---------------------------------------------------------------------
\* VMEngine::reset

\* the engine after construction and load_string: what the first run() starts from
VMLoaded ==
    [Eng EXCEPT !.memory_ = VMMemoryReset, !.pc_ = 0, !.state_ = "READY",
                !.pause_reason_ = "NONE", !.pause_requested_ = FALSE,
                !.stats_ = VMStatsReset, !.error_message_ = "", !.error_location_ = 0]

\* the loop of VMEngine::run with no pause requested
RECURSIVE RunToEnd(_, _)
RunToEnd(e, fuel) ==
    IF fuel = 0 \/ e.state_ # "RUNNING" THEN e
    ELSE LET r == VMCore(e, FALSE, 0)
         IN  IF r.ret THEN RunToEnd(r.e, fuel - 1) ELSE r.e

\* VMEngine::run with no pause requested, cut after MaxInstr commands
RunResult(e) ==
    LET e0 == VMEnter(e)
    IN  IF VMCanExecute(e0) THEN RunToEnd(Started(e0), MaxInstr) ELSE e0

Raw == memory_.rom_[pc_ + 1]

\* a step of the CPU engine that executed a C-instruction to its end
CInstructionDone ==
    /\ engine = "cpu"
    /\ stats_'.c_instruction_count = stats_.c_instruction_count + 1

\* the value the ALU gives for the instruction at the program counter
AluOut ==
    LET comp == (Raw \div 64) % 128
    IN  compute_alu(comp, d_register_,
                    IF comp >= 64 THEN Rd(memory_.ram_, a_register_) ELSE a_register_).v

MaxSegCommands == 4

\* the two ways a program starts: at command 0 with no frame, or in an entry
\* function with two locals
SegStarts ==
    { get_program(<<>>, <<VMFile("Main")>>),
      get_program(<<Function("Main.main", 2)>>, <<VMFile("Main")>>) }

\* segment accesses of the commands; every writable segment occurs; with THIS
\* at 32767, the largest index the parser lets through, this 1 is address 32768
SegAccesses ==
    { <<"local", 0>>, <<"argument", 0>>, <<"this", 0>>, <<"that", 0>>,
      <<"temp", 3>>, <<"pointer", 0>>, <<"static", 0>>, <<"this", 1>> }

SegCommands ==
    { Push("constant", v, "Main") : v \in {3, 300, 32767} }
    \cup { Push(a[1], a[2], "Main") : a \in SegAccesses }
    \cup { Pop(a[1], a[2], "Main") : a \in SegAccesses }

\* everything but the engine's state and the history of the run
SegFixed ==
    UNCHANGED <<hosts, memVars, pinVars, seqVars, engine, program_, entry_point_, breakpoints_,
                pause_raced, op, last, clobbered>>

\* VMEngine::run on a READY engine, up to its loop: initialize_execution
SegStart(prog) ==
    /\ engine = "vm" /\ IsIdle /\ program_ = 0 /\ state_ = "READY"
    /\ SetEng(Started(initialize_execution(prog, "", Eng)))
    /\ popped_' = None
    /\ SegFixed

\* VMEngine::execute_command for the push or pop command cmd; u is the word an
\* out-of-bounds read gives
SegExecute(cmd, u) ==
    /\ engine = "vm" /\ IsIdle /\ program_ = 0 /\ state_ = "RUNNING"
    /\ stats_.instructions_executed < MaxSegCommands
    /\ LET x == IF cmd.t = "pop" THEN execute_pop(memory_, pc_, stats_, cmd, u)
                ELSE execute_push(memory_, pc_, stats_, cmd, u)
       IN  /\ SetEng(AfterDispatch(Eng, x).e)
           /\ popped_' =
                IF ~x.ok THEN None
                ELSE IF cmd.t = "pop"
                THEN Some([segment |-> cmd.segment, index |-> cmd.index,
                           before |-> memory_, pushed |-> FALSE])
                ELSE IF /\ popped_ # None /\ ~popped_[1].pushed
                        /\ popped_[1].segment = cmd.segment
                        /\ popped_[1].index = cmd.index
                THEN Some([popped_[1] EXCEPT !.pushed = TRUE])
                ELSE None
    /\ SegFixed

InitSeg == Init /\ engine = "vm"

NextSeg ==
    \/ \E prog \in SegStarts : SegStart(prog)
    \/ \E cmd \in SegCommands : \E u \in UBWords : SegExecute(cmd, u)

SpecSeg == InitSeg /\ [][NextSeg]_vars

\* pop segment i, then push segment i, have just executed without an error
PopThenPush == popped_ # None /\ popped_[1].pushed

\* the memory before that pop
Before == popped_[1].before

\* the address of segment[i] before that pop
Target == calculate_address(Before, popped_[1].segment, popped_[1].index, "Main").v

\* the word that addresses the segment: LCL, ARG, THIS or THAT
BaseWord ==
    CASE popped_[1].segment = "local" -> LCL
      [] popped_[1].segment = "argument" -> ARG
      [] popped_[1].segment = "this" -> THIS
      [] popped_[1].segment = "that" -> THAT
      [] OTHER -> RAM_SIZE

\* RAM addresses that hold a word in either memory
Held == DOMAIN memory_.ram_ \cup DOMAIN Before.ram_

\* C27 (as stated): pop segment i followed by push segment i leaves SP and
\* every word but segment[i] as they were before the pop
C27_PopPushRestores ==
    PopThenPush =>
        /\ GetSP(memory_) = GetSP(Before)
        /\ \A a \in Held \ {Target} : Rd(memory_.ram_, a) = Rd(Before.ram_, a)

\* C27 (amended): the same, for a target word that lies in the RAM and is
\* neither SP nor the word that addresses the segment
C27_PopPushRestoresOffPointers ==
    (PopThenPush /\ InRam(Target) /\ Target # SP /\ Target # BaseWord) =>
        /\ GetSP(memory_) = GetSP(Before)
        /\ \A a \in Held \ {Target} : Rd(memory_.ram_, a) = Rd(Before.ram_, a)
        /\ Rd(memory_.ram_, Target) = Rd(Before.ram_, GetSP(Before) - 1)

\* push constant 300, pop temp 3, push temp 3 has executed: RAM[8] holds 300
C27_PoppedAndPushedTemp ==
    /\ PopThenPush /\ popped_[1].segment = "temp"
    /\ Target = TEMP_BASE + 3 /\ Rd(memory_.ram_, Target) = 300
    /\ Rd(Before.ram_, Target) = 0

\* ---------------------------------------------------------------------
\* CPUMemory driven by its host: RAM writes, pixels, keyboard, ROM loads

KEYBOARD == 24576

\* 1 << b
Pow2(b) == IF b = 0 THEN 1 ELSE 2 ^ b

\* (w >> b) & 1
BitOf(w, b) == (w \div Pow2(b)) % 2

\* CPUMemory::set_pixel
set_pixel(m, x, y, on) ==
    IF x < 0 \/ x >= 512 \/ y < 0 \/ y >= 256 THEN m
    ELSE LET word_offset == (y * 32) + (x \div 16)
             bit_offset == x % 16
             addr == SCREEN_BASE + word_offset
             w == Rd(m.ram_, addr)
             v == IF on THEN (IF BitOf(w, bit_offset) = 1 THEN w ELSE w + Pow2(bit_offset))
                  ELSE (IF BitOf(w, bit_offset) = 1 THEN w - Pow2(bit_offset) ELSE w)
         IN  [m EXCEPT !.ram_ = Wr(@, addr, v), !.screen_dirty_ = TRUE]

\* CPUMemory::set_keyboard
set_keyboard(m, key_code) == [m EXCEPT !.ram_ = Wr(@, KEYBOARD, key_code)]

\* CPUMemory::clear_screen_dirty
clear_screen_dirty(m) == [m EXCEPT !.screen_dirty_ = FALSE]

\* a line of a .hack text with its trailing '\r', ' ' and '\t' removed
RECURSIVE TrimLine(_)
TrimLine(line) ==
    IF line # <<>> /\ line[Len(line)] \in {"\r", " ", "\t"}
    THEN TrimLine(SubSeq(line, 1, Len(line) - 1))
    ELSE line

\* CPUMemory::parse_binary_line: None when the line is not 16 characters of
\* '0' and '1'
RECURSIVE BinaryValue(_, _)
BinaryValue(line, i) ==
    IF i > 16 THEN 0
    ELSE (IF line[i] = "1" THEN Pow2(16 - i) ELSE 0) + BinaryValue(line, i + 1)

parse_binary_line(line) ==
    IF Len(line) # 16 \/ \E i \in 1 .. 16 : line[i] \notin {"0", "1"} THEN None
    ELSE Some(BinaryValue(line, 1))

\* CPUMemory::load_rom_string on the lines of the text: [ok, m]; a ParseError
\* leaves the words parsed before it
RECURSIVE LoadLines(_, _)
LoadLines(m, lines) ==
    IF lines = <<>> THEN [ok |-> TRUE, m |-> m]
    ELSE LET line == TrimLine(Head(lines))
             w == parse_binary_line(line)
         IN  IF line = <<>> THEN LoadLines(m, Tail(lines))
             ELSE IF w = None THEN [ok |-> FALSE, m |-> m]
             ELSE LoadLines([m EXCEPT !.rom_ = Append(@, w[1]),
                                      !.program_size_ = @ + 1], Tail(lines))

load_rom_string(m, lines) ==
    LoadLines([m EXCEPT !.rom_ = <<>>, !.program_size_ = 0], lines)

\* the characters of a word written as 16 binary digits, first bit first
RECURSIVE Binary(_, _)
Binary(w, n) ==
    IF n = 0 THEN <<>> ELSE Append(Binary(w \div 2, n - 1), IF w % 2 = 1 THEN "1" ELSE "0")

\* .hack texts: @3 / D=A with an empty line and a carriage return; @3 alone;
\* a second line of 15 characters
MemTexts ==
    { << Binary(3, 16), <<>>, Binary(60432, 16) \o <<"\r">> >>,
      << Binary(3, 16) \o <<" ">> >>,
      << Binary(3, 16), Binary(1, 15) >> }

\* the instructions of a text: its lines that are not empty, as words
RECURSIVE MemWords(_)
MemWords(lines) ==
    IF lines = <<>> THEN <<>>
    ELSE LET l == SelectSeq(Head(lines), LAMBDA c : c \in {"0", "1"})
         IN  IF l = <<>> THEN MemWords(Tail(lines))
             ELSE <<BinaryValue(l, 1)>> \o MemWords(Tail(lines))

\* pre-decoded programs handed to load_rom
MemRoms == { <<>>, CPUStraightProgram }

MemAddresses == {0, SCREEN_BASE - 1, SCREEN_BASE, SCREEN_BASE + SCREEN_SIZE - 1, KEYBOARD, RAM_SIZE}
MemWordValues == {0, 1}
MemPixels == {<<0, 0>>, <<511, 255>>, <<16, 1>>, <<512, 0>>, <<0 - 1, 0>>, <<0, 256>>}

InScreen(a) == a >= SCREEN_BASE /\ a < SCREEN_BASE + SCREEN_SIZE

\* everything but the memory, its history and the record of the last call
MemFixed ==
    UNCHANGED <<hosts, segVars, pinVars, seqVars, engine, program_, entry_point_,
                a_register_, d_register_,
                pc_, state_, pause_reason_, pause_requested_, pause_raced, stats_,
                breakpoints_, error_message_, error_location_, op, clobbered>>

MemCalled(name) == last' = [NoCall EXCEPT !.name = name]

\* CPUMemory::write_ram
MemWriteRam(address, value) ==
    /\ engine = "cpu" /\ IsIdle
    /\ LET r == cpu_write_ram(memory_, address, value)
       IN  /\ memory_' = r.m
           /\ screen_written_' = (screen_written_ \/ (r.ok /\ InScreen(address)))
           /\ MemCalled(IF r.ok THEN "write_ram" ELSE "write_ram threw")
    /\ MemFixed

\* CPUMemory::set_pixel
MemSetPixel(x, y, on) ==
    /\ engine = "cpu" /\ IsIdle
    /\ memory_' = set_pixel(memory_, x, y, on)
    /\ screen_written_' =
          (screen_written_ \/ (x >= 0 /\ x < 512 /\ y >= 0 /\ y < 256))
    /\ MemCalled("set_pixel")
    /\ MemFixed

\* CPUMemory::set_keyboard
MemSetKeyboard(key_code) ==
    /\ engine = "cpu" /\ IsIdle
    /\ memory_' = set_keyboard(memory_, key_code)
    /\ MemCalled("set_keyboard")
    /\ UNCHANGED screen_written_
    /\ MemFixed

\* CPUMemory::clear_screen_dirty
MemClearScreenDirty ==
    /\ engine = "cpu" /\ IsIdle
    /\ memory_' = clear_screen_dirty(memory_)
    /\ screen_written_' = FALSE
    /\ MemCalled("clear_screen_dirty")
    /\ MemFixed

\* CPUMemory::load_rom
MemLoadRom(instructions) ==
    /\ engine = "cpu" /\ IsIdle
    /\ memory_' = load_rom(memory_, instructions)
    /\ MemCalled("load_rom")
    /\ UNCHANGED screen_written_
    /\ MemFixed

\* CPUMemory::load_rom_string
MemLoadRomString(lines) ==
    /\ engine = "cpu" /\ IsIdle
    /\ LET r == load_rom_string(memory_, lines)
       IN  /\ memory_' = r.m
           /\ MemCalled(IF r.ok THEN "load_rom_string" ELSE "load_rom_string threw")
    /\ UNCHANGED screen_written_
    /\ MemFixed

\* CPUMemory::reset
MemReset ==
    /\ engine = "cpu" /\ IsIdle
    /\ memory_' = CPUMemoryReset
    /\ screen_written_' = FALSE
    /\ MemCalled("reset")
    /\ MemFixed

InitMem == Init /\ engine = "cpu"

NextMem ==
    \/ \E a \in MemAddresses : \E v \in MemWordValues : MemWriteRam(a, v)
    \/ \E p \in MemPixels : \E on \in BOOLEAN : MemSetPixel(p[1], p[2], on)
    \/ \E k \in MemWordValues : MemSetKeyboard(k)
    \/ MemClearScreenDirty
    \/ \E r \in MemRoms : MemLoadRom(r)
    \/ \E t \in MemTexts : MemLoadRomString(t)
    \/ MemReset

SpecMem == InitMem /\ [][NextMem]_vars

\* C23: the screen dirty flag is set exactly when a word of the screen
\* [16384, 24576) was written since the flag was last cleared, whatever
\* sequence of write_ram, set_pixel, set_keyboard, clear_screen_dirty, load and
\* reset has run
C23_DirtyIffScreenWritten == memory_.screen_dirty_ = screen_written_

\* the last screen word has been written by write_ram after the flag was
\* cleared, and the flag is set
C23_DirtyAfterScreenWrite ==
    /\ engine = "cpu" /\ last.name = "write_ram"
    /\ Rd(memory_.ram_, SCREEN_BASE + SCREEN_SIZE - 1) = 1
    /\ memory_.screen_dirty_ /\ screen_written_

\* C24 (as stated): after a successful ROM load the screen dirty flag is false
\* and program_size is the number of instructions loaded
C24_LoadClearsDirty ==
    [][((\E r \in MemRoms : MemLoadRom(r))
           \/ (\E t \in MemTexts : MemLoadRomString(t) /\ last'.name = "load_rom_string")) =>
          /\ ~memory_'.screen_dirty_
          /\ memory_'.program_size_ = Len(memory_'.rom_)]_vars

\* C24 (amended): a successful ROM load sets program_size to the number of
\* instructions loaded and the ROM to those instructions, and leaves the
\* screen dirty flag and the RAM as they were
C24_LoadSetsRomOnly ==
    [][/\ \A r \in MemRoms : MemLoadRom(r) =>
              /\ memory_'.program_size_ = Len(r) /\ memory_'.rom_ = r
              /\ memory_'.screen_dirty_ = memory_.screen_dirty_
              /\ memory_'.ram_ = memory_.ram_
       /\ \A t \in MemTexts : (MemLoadRomString(t) /\ last'.name = "load_rom_string") =>
              /\ memory_'.program_size_ = Len(MemWords(t)) /\ memory_'.rom_ = MemWords(t)
              /\ memory_'.screen_dirty_ = memory_.screen_dirty_
              /\ memory_'.ram_ = memory_.ram_]_vars

\* a two-instruction text has been loaded into a memory whose screen is dirty
C24_LoadedWhileDirty ==
    /\ engine = "cpu" /\ last.name = "load_rom_string"
    /\ memory_.program_size_ = 2 /\ memory_.rom_ = <<3, 60432>>
    /\ memory_.screen_dirty_

\* ---------------------------------------------------------------------
\* HDLChip::get_pin_bits and set_pin_bits.  An int64_t is the set of the
\* positions 0 .. 63 of its bits that are 1 (two's complement: bit 63 is the
\* sign), so that &, |, ~, << and >> are computed bit by bit.

Bits64 == 0 .. 63

\* (int64_t(1) << width) - 1, for 0 <= width <= 62
Mask(width) == 0 .. (width - 1)

\* x << n: the bits shifted past bit 63 are lost
Shl(x, n) == { b + n : b \in x } \cap Bits64

\* x >> n on a signed value: the sign bit fills from the left
Sar(x, n) ==
    { b - n : b \in { c \in x : c >= n } }
      \cup (IF 63 \in x THEN (64 - n) .. 63 ELSE {})

\* set_pin_bits storing the new bits without clearing the old ones
set_pin_bits_or(current, lo, hi, value) ==
    IF lo < 0 THEN value
    ELSE current \cup Shl(value \cap Mask(hi - lo + 1), lo)

\* HDLChip::set_pin_bits: the value of the pin after the call
set_pin_bits(current, lo, hi, value) ==
    IF lo < 0 THEN value
    ELSE LET width == hi - lo + 1
             mask == Mask(width)
             v == value \cap mask
         IN  (current \cap (Bits64 \ Shl(mask, lo))) \cup Shl(v, lo)

\* HDLChip::get_pin_bits
get_pin_bits(val, lo, hi) ==
    IF lo < 0 THEN val ELSE Sar(val, lo) \cap Mask(hi - lo + 1)

\* values written: 0, 10, -1, a negative value with bit 2
PinValues == { {}, {1, 3}, Bits64, {2, 63} }

\* sub-ranges lo..hi of a pin
PinRanges == { r \in {0, 3, 7} \X {0, 3, 7} : r[1] <= r[2] }

PinFixed ==
    UNCHANGED <<hosts, segVars, memVars, seqVars, engine, program_, entry_point_, memory_,
                a_register_, d_register_, pc_, state_, pause_reason_, pause_requested_,
                pause_raced, stats_, breakpoints_, error_message_, error_location_, op,
                last, clobbered>>

\* HDLChip::set_pin
PinSet(value) ==
    /\ pin_' = value
    /\ pin_write_' = None
    /\ PinFixed

\* HDLChip::set_pin_bits(name, lo, hi, value) with 0 <= lo <= hi
PinSetBits(lo, hi, value) ==
    /\ pin_' = set_pin_bits(pin_, lo, hi, value)
    /\ pin_write_' = Some([lo |-> lo, hi |-> hi, value |-> value, before |-> pin_])
    /\ PinFixed

InitPins == Init /\ engine = "vm"

NextPins ==
    \/ \E v \in PinValues : PinSet(v)
    \/ \E r \in PinRanges : \E v \in PinValues : PinSetBits(r[1], r[2], v)

SpecPins == InitPins /\ [][NextPins]_vars

\* C28: after set_pin_bits(name, lo, hi, v) bit b of the pin is bit b - lo of v
\* for lo <= b <= hi and is what it was before the call for every other b, and
\* get_pin_bits(name, lo, hi) returns the low hi - lo + 1 bits of v
C28_SubRangeWrite ==
    pin_write_ # None =>
        LET w == pin_write_[1] IN
        /\ \A b \in Bits64 :
              (b \in pin_) = IF b >= w.lo /\ b <= w.hi THEN (b - w.lo) \in w.value
                            ELSE b \in w.before
        /\ get_pin_bits(pin_, w.lo, w.hi) = { b \in w.value : b <= w.hi - w.lo }

\* set_pin_bits(name, 3, 7, 10) on a pin holding -1: bits 4 and 6 are set, bits
\* 3, 5 and 7 are cleared and every other bit is still 1
C28_WroteMiddleBits ==
    /\ pin_write_ # None
    /\ pin_write_[1].lo = 3 /\ pin_write_[1].hi = 7
    /\ pin_write_[1].value = {1, 3} /\ pin_write_[1].before = Bits64
    /\ pin_ = Bits64 \ {3, 5, 7}

\* ---------------------------------------------------------------------
\* SourceMap::parse_map_line: what a loaded map holds

\* C29: every entry of the loaded source map has jack_line >= 1 and a VM command
\* index below the number of commands of the loaded VM program
C29_EntriesInBounds ==
    \A i \in 1 .. Len(source_map_) :
        /\ source_map_[i].jack_line >= 1
        /\ source_map_[i].vm_command_index < Len(Program(program_).commands)

\* ---------------------------------------------------------------------
\* JackDebugger::step: progress of the stepping loop

\* C30: every iteration of the loop of step() that no pause request takes
\* executes one VM command (instructions_executed increases) or ends the loop,
\* also when a VM breakpoint is installed on the current line
C30_StepIterationProgress ==
    [][(JackStepIter /\ ~pause_requested_) =>
          \/ stats_'.instructions_executed > stats_.instructions_executed
          \/ jop'.name = "idle"]_vars

\* ---------------------------------------------------------------------
\* Built-in sequential chips: eval, tick and tock of DFF, Bit, Register, the
\* RAM banks (RAM8 stands for the template) and PC.  A chip is
\* [kind, pins, st]; st holds the state record of its kind (for DFF value is
\* dff_state and pending is dff_next; pending_load is pending_write of a RAM).

\* largest value the PC under test counts to
MaxPCValue == 3

SeqKinds == {"DFF", "Bit", "Register", "RAM8", "PC"}

\* the chip as the registry makes it: every pin 0, the state default-constructed
SeqChip(kind) ==
    [kind |-> kind,
     pins |-> [in |-> 0, load |-> 0, address |-> 0, inc |-> 0, reset |-> 0, out |-> 0],
     st |-> [value |-> 0, pending |-> 0, pending_load |-> FALSE,
             memory |-> EmptyRam, pending_address |-> 0]]

\* the input pins of each kind
SeqInputs(kind) ==
    CASE kind = "DFF" -> {"in"}
      [] kind = "Bit" -> {"in", "load"}
      [] kind = "Register" -> {"in", "load"}
      [] kind = "RAM8" -> {"in", "load", "address"}
      [] kind = "PC" -> {"in", "load", "inc", "reset"}

\* values a host sets an input pin to: 65538 has bits above the 16th, 9 is an
\* address past the 3 address bits
SeqPinValues(name) ==
    CASE name = "in" -> {0, 5, 65538}
      [] name = "address" -> {0, 9}
      [] OTHER -> {0, 1}

eval_DFF(c) == [c EXCEPT !.pins.out = c.st.value]
tick_DFF(c) == [c EXCEPT !.st.pending = c.pins.in]
tock_DFF(c) == [c EXCEPT !.st.value = c.st.pending, !.pins.out = c.st.pending]

eval_Bit(c) == [c EXCEPT !.pins.out = c.st.value]
tick_Bit(c) ==
    [c EXCEPT !.st.pending = c.pins.in, !.st.pending_load = (c.pins.load # 0)]
tock_Bit(c) ==
    LET v == IF c.st.pending_load THEN c.st.pending % 2 ELSE c.st.value
    IN  [c EXCEPT !.st.value = v, !.pins.out = v]

eval_Register(c) == [c EXCEPT !.pins.out = c.st.value]
tick_Register(c) ==
    [c EXCEPT !.st.pending = c.pins.in % WordMod, !.st.pending_load = (c.pins.load # 0)]
tock_Register(c) ==
    LET v == IF c.st.pending_load THEN c.st.pending ELSE c.st.value
    IN  [c EXCEPT !.st.value = v, !.pins.out = v]

\* tock_RAM showing the word at the address sampled by tick
tock_RAM_at_pending(c, bits) ==
    LET mem == IF c.st.pending_load
               THEN Wr(c.st.memory, c.st.pending_address, c.st.pending)
               ELSE c.st.memory
    IN  [c EXCEPT !.st.memory = mem, !.pins.out = Rd(mem, c.st.pending_address)]

eval_RAM(c, bits) == [c EXCEPT !.pins.out = Rd(c.st.memory, c.pins.address % (2 ^ bits))]
tick_RAM(c, bits) ==
    [c EXCEPT !.st.pending_address = c.pins.address % (2 ^ bits),
              !.st.pending = c.pins.in % WordMod,
              !.st.pending_load = (c.pins.load # 0)]
tock_RAM(c, bits) ==
    LET mem == IF c.st.pending_load
               THEN Wr(c.st.memory, c.st.pending_address, c.st.pending)
               ELSE c.st.memory
    IN  [c EXCEPT !.st.memory = mem, !.pins.out = Rd(mem, c.pins.address % (2 ^ bits))]

eval_PC(c) == [c EXCEPT !.pins.out = c.st.value]
tick_PC(c) ==
    [c EXCEPT !.st.pending =
                 IF c.pins.reset # 0 THEN 0
                 ELSE IF c.pins.load # 0 THEN c.pins.in % WordMod
                 ELSE IF c.pins.inc # 0 THEN (c.st.value + 1) % WordMod
                 ELSE c.st.value]
tock_PC(c) == [c EXCEPT !.st.value = c.st.pending, !.pins.out = c.st.pending]

\* the eval, tick and tock functions the registry gives the chip
SeqEvalOf(c) ==
    CASE c.kind = "DFF" -> eval_DFF(c)
      [] c.kind = "Bit" -> eval_Bit(c)
      [] c.kind = "Register" -> eval_Register(c)
      [] c.kind = "RAM8" -> eval_RAM(c, 3)
      [] c.kind = "PC" -> eval_PC(c)

SeqTickOf(c) ==
    CASE c.kind = "DFF" -> tick_DFF(c)
      [] c.kind = "Bit" -> tick_Bit(c)
      [] c.kind = "Register" -> tick_Register(c)
      [] c.kind = "RAM8" -> tick_RAM(c, 3)
      [] c.kind = "PC" -> tick_PC(c)

SeqTockOf(c) ==
    CASE c.kind = "DFF" -> tock_DFF(c)
      [] c.kind = "Bit" -> tock_Bit(c)
      [] c.kind = "Register" -> tock_Register(c)
      [] c.kind = "RAM8" -> tock_RAM(c, 3)
      [] c.kind = "PC" -> tock_PC(c)

SeqFixed ==
    UNCHANGED <<hosts, segVars, memVars, pinVars, engine, program_, entry_point_, memory_,
                a_register_, d_register_, pc_, state_, pause_reason_, pause_requested_,
                pause_raced, stats_, breakpoints_, error_message_, error_location_, op,
                last, clobbered>>

\* the history once something other than a pin write follows a tock
AfterTock == IF seq_tick_ # None /\ seq_tick_[1].tocked THEN None ELSE seq_tick_

\* the resolver makes a chip of the kind
SeqMake(kind) ==
    /\ seq_ = None
    /\ seq_' = Some(SeqChip(kind))
    /\ seq_tick_' = None
    /\ SeqFixed

\* HDLChip::set_pin on an input pin
SeqSetPin(name, value) ==
    /\ seq_ # None /\ name \in SeqInputs(seq_[1].kind)
    /\ seq_' = Some([seq_[1] EXCEPT !.pins[name] = value])
    /\ seq_tick_' = AfterTock
    /\ SeqFixed

\* eval of the chip
SeqEval ==
    /\ seq_ # None
    /\ seq_' = Some(SeqEvalOf(seq_[1]))
    /\ seq_tick_' = AfterTock
    /\ SeqFixed

\* tick of the chip: the rising edge
SeqTick ==
    /\ seq_ # None
    /\ seq_[1].kind = "PC" => seq_[1].st.value < MaxPCValue \/ seq_[1].pins.inc = 0
    /\ seq_' = Some(SeqTickOf(seq_[1]))
    /\ seq_tick_' = Some([pins |-> seq_[1].pins, st |-> seq_[1].st, tocked |-> FALSE])
    /\ SeqFixed

\* tock of the chip: the falling edge
SeqTock ==
    /\ seq_ # None
    /\ seq_' = Some(SeqTockOf(seq_[1]))
    /\ seq_tick_' = IF seq_tick_ # None /\ ~seq_tick_[1].tocked
                    THEN Some([seq_tick_[1] EXCEPT !.tocked = TRUE])
                    ELSE None
    /\ SeqFixed

InitSeq == Init /\ engine = "vm"

NextSeq ==
    \/ \E kind \in SeqKinds : SeqMake(kind)
    \/ \E name \in {"in", "load", "address", "inc", "reset"} :
          \E value \in SeqPinValues(name) : SeqSetPin(name, value)
    \/ SeqEval
    \/ SeqTick
    \/ SeqTock

SpecSeq == InitSeq /\ [][NextSeq]_vars

\* a tock has just followed a tick, with any pin writes and evals in between
Tocked == seq_tick_ # None /\ seq_tick_[1].tocked

\* the pins at that tick and the state before it
AtTick == seq_tick_[1].pins
BeforeTick == seq_tick_[1].st

\* the value the tick sampled for the state, and whether its control was asserted
Sampled ==
    CASE seq_[1].kind = "DFF" -> AtTick.in
      [] seq_[1].kind = "Bit" -> AtTick.in % 2
      [] seq_[1].kind = "PC" ->
            IF AtTick.reset # 0 THEN 0
            ELSE IF AtTick.load # 0 THEN AtTick.in % 65536
            ELSE (BeforeTick.value + 1) % 65536
      [] OTHER -> AtTick.in % 65536

Asserted ==
    CASE seq_[1].kind = "DFF" -> TRUE
      [] seq_[1].kind = "PC" -> AtTick.reset # 0 \/ AtTick.load # 0 \/ AtTick.inc # 0
      [] OTHER -> AtTick.load # 0

\* C21 (as stated): the output after tock is the state sampled at the preceding
\* tick when the control was asserted at that tick, and the state held when it
\* was not, whatever was written to the input pins between tick and tock
C21_OutIsSampledState ==
    Tocked =>
        /\ Asserted => seq_[1].pins.out = Sampled
        /\ (~Asserted /\ seq_[1].kind # "RAM8") => seq_[1].pins.out = BeforeTick.value
        /\ (~Asserted /\ seq_[1].kind = "RAM8") => seq_[1].st.memory = BeforeTick.memory

\* C21 (amended): the state after tock is the state sampled at the preceding
\* tick when the control was asserted at that tick and the state held when it
\* was not; out shows the state, for a RAM the word at the address the address
\* pin has at the tock
C21_StateIsSampledState ==
    Tocked =>
        IF seq_[1].kind = "RAM8"
        THEN /\ seq_[1].st.memory =
                  IF Asserted THEN Wr(BeforeTick.memory, AtTick.address % 8, Sampled)
                  ELSE BeforeTick.memory
             /\ seq_[1].pins.out = Rd(seq_[1].st.memory, seq_[1].pins.address % 8)
        ELSE /\ seq_[1].st.value = IF Asserted THEN Sampled ELSE BeforeTick.value
             /\ seq_[1].pins.out = seq_[1].st.value

\* a RAM8 was ticked with load = 1, in = 5, address = 0, the address pin was
\* set to 9 before the tock: word 0 holds 5 and out shows word 1
C21_AddressMovedBeforeTock ==
    /\ Tocked /\ seq_[1].kind = "RAM8"
    /\ AtTick.load = 1 /\ AtTick.in = 5 /\ AtTick.address = 0
    /\ seq_[1].pins.address = 9
    /\ Rd(seq_[1].st.memory, 0) = 5 /\ seq_[1].pins.out = 0

-----------------------------------------------------------------------------
(* Evaluating a user-defined chip: HDLChip::eval on chips with two output  *)
(* pins, made of Not and And parts that are connected to whole pins.       *)

\* largest number of parts of a chip that is evaluated
MaxEvalParts == 2

EvalPartChoices ==
    { NotPart(x, y) : x \in {"a", "out", "w1"}, y \in {"out", "out2", "w1"} }
      \cup { AndPart("a", "w1", "out2"), NotPart("true", "w1"),
             [chip_name |-> "Nope", connections |-> <<>>] }

\* CHIP T { IN a; OUT out, out2; PARTS: ... } with one to MaxEvalParts parts
EvalChipDefs ==
    { [name |-> "T", inputs |-> <<"a">>, outputs |-> <<"out", "out2">>, parts |-> ps] :
        ps \in UNION { [1 .. k -> EvalPartChoices] : k \in 1 .. MaxEvalParts } }

\* eval_And of the built-in registry: (a & b) & 1
eval_And(pins) ==
    [pins EXCEPT !.out = IF pins.a % 2 = 1 /\ pins.b % 2 = 1 THEN 1 ELSE 0]

\* HDLChip::eval of a sub-chip: its builtin_eval_
builtin_eval(chip_name, pins) ==
    IF chip_name = "Not" THEN eval_Not(pins) ELSE eval_And(pins)

\* HDLChip::propagate_inputs: the pins of sub-chip part_index after the input
\* mappings ins were applied in order
RECURSIVE propagate_inputs(_, _, _, _)
propagate_inputs(pins, sub, ins, part_index) ==
    IF ins = <<>> THEN sub
    ELSE LET m == Head(ins)
             val == IF m.chip_pin \in {"true", "false"}
                    THEN constant_value(m.chip_pin)
                    ELSE pins[m.chip_pin]
         IN  propagate_inputs(pins,
                              IF m.part_index # part_index THEN sub
                              ELSE [sub EXCEPT ![m.part_pin] = val],
                              Tail(ins), part_index)

\* HDLChip::collect_outputs: the pins of the chip after the output mappings
\* outs were applied in order
RECURSIVE collect_outputs(_, _, _, _)
collect_outputs(pins, sub, outs, part_index) ==
    IF outs = <<>> THEN pins
    ELSE LET m == Head(outs)
         IN  collect_outputs(IF m.part_index # part_index THEN pins
                             ELSE [pins EXCEPT ![m.chip_pin] = sub[m.part_pin]],
                             sub, Tail(outs), part_index)

\* HDLChip::eval of a user-defined chip: the loop over the parts in order
RECURSIVE chip_eval(_, _, _, _, _, _)
chip_eval(def, pins, subs, ins, outs, order) ==
    IF order = <<>> THEN [pins |-> pins, sub_chips |-> subs]
    ELSE LET idx == Head(order)
             fed == propagate_inputs(pins, subs[idx + 1], ins, idx)
             done == builtin_eval(def.parts[idx + 1].chip_name, fed)
         IN  chip_eval(def, collect_outputs(pins, done, outs, idx),
                       [subs EXCEPT ![idx + 1] = done], ins, outs, Tail(order))

\* the values of the output pins
OutputPins == [o \in Range(def_.outputs) |-> pins_[o]]

EvalFixed ==
    <<engine, program_, entry_point_, memory_, a_register_, d_register_, pc_, state_,
      pause_reason_, pause_requested_, pause_raced, stats_, breakpoints_,
      error_message_, error_location_, op, last, clobbered, jackVars, tstVars, units,
      def_, input_mappings_, output_mappings_, eval_order_, chip_state>>

\* HDLChip::set_pin on a pin of the chip
HDLSetPin(name, value) ==
    /\ chip_state = "constructed"
    /\ name \in DOMAIN pins_
    /\ pins_' = [pins_ EXCEPT ![name] = value]
    /\ evals_' = [count |-> 0, before |-> <<>>]
    /\ UNCHANGED <<EvalFixed, sub_chips_>>

\* HDLChip::eval
HDLEval ==
    /\ chip_state = "constructed"
    /\ LET r == chip_eval(def_, pins_, sub_chips_, input_mappings_, output_mappings_,
                          eval_order_)
       IN  /\ pins_' = r.pins
           /\ sub_chips_' = r.sub_chips
    /\ evals_' = [count |-> IF evals_.count < 2 THEN evals_.count + 1 ELSE 2,
                  before |-> IF evals_.count = 0 THEN <<>> ELSE OutputPins]
    /\ UNCHANGED EvalFixed

\* a chip definition as HDLParser hands it to the constructor
InitEval ==
    /\ EngineInit /\ engine = "vm"
    /\ JackInit
    /\ TstInit
    /\ SegInit
    /\ MemInit
    /\ PinInit
    /\ SeqInit
    /\ def_ \in EvalChipDefs
    /\ input_mappings_ = <<>>
    /\ output_mappings_ = <<>>
    /\ eval_order_ = <<>>
    /\ chip_state = "defined"
    /\ pins_ = <<>>
    /\ sub_chips_ = <<>>
    /\ evals_ = [count |-> 0, before |-> <<>>]

NextEval ==
    \/ HDLConstruct
    \/ \E name \in {"a"}, value \in {0, 1} : HDLSetPin(name, value)
    \/ HDLEval

SpecEval == InitEval /\ [][NextEval]_vars

-----------------------------------------------------------------------------
(* C22: eval twice                                                         *)

\* part b reads a wire or a pin that part a writes
DependsOn(b, a) == \E w \in Wires : Writes(a, w) /\ Reads(b, w)

\* part b depends on part a through at most n wires
RECURSIVE Reaches(_, _, _)
Reaches(a, b, n) ==
    /\ n > 0
    /\ \/ DependsOn(b, a)
       \/ \E c \in PartIndices : DependsOn(c, a) /\ Reaches(c, b, n - 1)

\* no part depends on itself, directly or through other parts
StrictlyAcyclic == \A p \in PartIndices : ~Reaches(p, p, Len(def_.parts))

\* the last two eval() calls, with no pin set between them, left the same
\* values on the output pins
SameOutputsTwice ==
    evals_.count = 2 => \A o \in Range(def_.outputs) : pins_[o] = evals_.before[o]

\* C22: for a chip whose parts are strictly acyclic, two consecutive eval()
\* calls with unchanged input pins leave every output pin with the same value
\* after the second call as after the first
C22_EvalIdempotent ==
    (chip_state = "constructed" /\ StrictlyAcyclic) => SameOutputsTwice

\* what eval does guarantee: the outputs repeat when, in the evaluation order,
\* every part that reads a wire or a pin comes after the parts that write it
EvalIdempotentInOrder ==
    (chip_state = "constructed" /\ StrictlyAcyclic /\ ReadersAfterWriters(Wires))
        => SameOutputsTwice

\* an acyclic chip in which no part reads an output pin was evaluated twice
EvaluatedTwiceInOrder ==
    /\ chip_state = "constructed" /\ StrictlyAcyclic /\ ReadersAfterWriters(Wires)
    /\ Len(def_.parts) = 2 /\ evals_.count = 2 /\ pins_["a"] = 1
    /\ \E a \in PartIndices, b \in PartIndices : a # b /\ DependsOn(b, a)

-----------------------------------------------------------------------------
(* C31: what a failing instruction leaves behind                           *)

\* the stack pointer, the pointer registers and the call stack of a VMMemory
VMRegisters(m) ==
    <<GetSP(m), GetLCL(m), GetARG(m), GetTHIS(m), GetTHAT(m), m.call_stack_>>

\* the engine as the failing instruction finds it
BeforeInstruction == IF engine = "vm" THEN Cur ELSE Eng

\* C31: when executing an instruction raises a runtime error, the state becomes
\* ERROR in the same step and the PC, the statistics counters, the CPU's A and
\* D registers and the VM's SP, pointer registers and call stack keep the
\* values they had before the failing instruction
C31_ErrorLeavesStateUntouched ==
    [][RaisesError =>
           /\ state_' = "ERROR"
           /\ pc_' = BeforeInstruction.pc_
           /\ stats_' = BeforeInstruction.stats_
           /\ engine = "cpu" =>
                  /\ a_register_' = a_register_
                  /\ d_register_' = d_register_
           /\ engine = "vm" =>
                  VMRegisters(memory_') = VMRegisters(BeforeInstruction.memory_)]_vars

\* the part of it that holds: the PC stays at the failing instruction and the
\* CPU registers and the VM's pointer registers and call stack are kept
ErrorKeepsPC ==
    [][RaisesError =>
           /\ state_' = "ERROR"
           /\ pc_' = BeforeInstruction.pc_
           /\ engine = "cpu" =>
                  /\ a_register_' = a_register_
                  /\ d_register_' = d_register_
           /\ engine = "vm" =>
                  /\ memory_'.call_stack_ = BeforeInstruction.memory_.call_stack_
                  /\ GetLCL(memory_') = GetLCL(BeforeInstruction.memory_)
                  /\ GetARG(memory_') = GetARG(BeforeInstruction.memory_)]_vars

\* a failing instruction that moves the stack pointer
ErrorKeepsSP ==
    [][RaisesError => (engine = "vm" => GetSP(memory_') = GetSP(BeforeInstruction.memory_))]_vars

-----------------------------------------------------------------------------
(* C32: where goto and if-goto go                                          *)

\* the function among whose commands the command at Cur.pc_ stands
EnclosingFunction == ParserFunction(Program(program_).commands, Cur.pc_ + 1)

\* a step in which the VM engine executes a goto, or an if-goto that finds a
\* word other than 0 on the stack
JumpStep ==
    /\ engine = "vm"
    /\ VMCanExecute(Cur)
    /\ Cur.pc_ < Len(Program(program_).commands)
    /\ \/ stats_'.instructions_executed = stats_.instructions_executed + 1
       \/ state_' = "ERROR" /\ state_ # "ERROR"
    /\ \/ CurCommand.t = "goto"
       \/ /\ CurCommand.t = "if-goto"
          /\ GetSP(Cur.memory_) > STACK_BASE
          /\ Rd(Cur.memory_.ram_, GetSP(Cur.memory_) - 1) # 0

\* where the claim sends the jump: F$L if F declares L, else L, else an error
LabelTarget ==
    LET lp == Program(program_).label_positions
        own == <<EnclosingFunction, CurCommand.label_name>>
        raw == <<"", CurCommand.label_name>>
    IN  IF own \in DOMAIN lp THEN Some(lp[own])
        ELSE IF raw \in DOMAIN lp THEN Some(lp[raw])
        ELSE None

\* C32: a goto L or a taken if-goto L among the commands of function F goes to
\* the label L declared inside F, however execution entered F; to the unscoped
\* L when F declares none; and is a runtime error when L is not defined
C32_JumpToOwnLabel ==
    [][JumpStep =>
           IF LabelTarget = None THEN state_' = "ERROR"
           ELSE state_' # "ERROR" /\ pc_' = LabelTarget[1]]_vars

\* what lookup_label does guarantee: the same, when the function of the top
\* call frame is the function the command stands in
JumpToOwnLabelWhenCalled ==
    [][(JumpStep /\ current_function(Cur.memory_) = EnclosingFunction) =>
           IF LabelTarget = None THEN state_' = "ERROR"
           ELSE state_' # "ERROR" /\ pc_' = LabelTarget[1]]_vars

\* Main.main has jumped to its own label L
JumpedInsideMain ==
    /\ engine = "vm" /\ Program(program_).commands = VMLabelProgram
    /\ pc_ = 4 /\ stats_.instructions_executed = 4 /\ state_ # "ERROR"

-----------------------------------------------------------------------------
(* C34: VMEngine::step_out                                                 *)

\* a step in which step_out returns to the host
StepOutReturns == engine = "vm" /\ op.name = "step_out" /\ op' = Idle

\* the call returns PAUSED with reason FUNCTION_EXIT
FunctionExit == state_' = "PAUSED" /\ pause_reason_' = "FUNCTION_EXIT"

\* a return of step_out is a function exit below the depth of the call, or
\* the program halted, failed or was paused for another reason
ExitsBelowOrStops ==
    /\ FunctionExit => Depth(Eng') < op.entered
    /\ ~FunctionExit =>
           \/ state_' \in {"HALTED", "ERROR"}
           \/ state_' = "PAUSED" /\ pause_reason_' \in {"USER_REQUEST", "BREAKPOINT"}

\* C34: step_out returns PAUSED with reason FUNCTION_EXIT only when the call
\* stack is strictly shallower than it was when step_out was called, also when
\* it was called with an empty call stack; otherwise it runs until the program
\* halts, fails or is paused for another reason
C34_StepOutExitsBelowEntry == [][StepOutReturns => ExitsBelowOrStops]_vars

\* what step_out does guarantee: the same, when it is called inside a function
StepOutExitsBelowEntryInFunction ==
    [][(StepOutReturns /\ op.entered > 0) => ExitsBelowOrStops]_vars

\* step_out was called inside a callee and returned in the caller
SteppedOutOfCallee ==
    /\ engine = "vm" /\ IsIdle /\ last.name = "step_out" /\ last.ret = "PAUSED"
    /\ pause_reason_ = "FUNCTION_EXIT" /\ Depth(Eng) = 1 /\ last.executed > 1

-----------------------------------------------------------------------------
(* C33: JackDebugger::step_out                                             *)

\* one iteration of the loop of step_out
StepOutIteration == jop.name = "step_out" /\ JackStepOutIter

\* the iteration leaves the engine in the caller: below the depth of the call,
\* neither halted nor failed
InCaller == state_' \notin {"HALTED", "ERROR"} /\ Depth(Eng') < jop.initial_depth

\* the command the iteration leaves the engine at is mapped to a Jack line
AtMappedCommand == get_entry_for_vm(source_map_, pc_') # None

\* every iteration is a single VM step
SingleSteps ==
    stats_'.instructions_executed \in
        {stats_.instructions_executed, stats_.instructions_executed + 1}

\* C33: step_out executes single VM steps and stops at the first VM command
\* reached below the call depth it was called at, whether or not that command
\* is source-mapped, unless the program halts or fails first
C33_StopsAtFirstCallerCommand ==
    [][StepOutIteration =>
           /\ SingleSteps
           /\ jop' = JackIdle <=> (state_' \in {"HALTED", "ERROR"} \/ InCaller)]_vars

\* C33 as the code has it: step_out executes single VM steps and stops at the
\* first source-mapped VM command reached below the call depth it was called
\* at; commands of the caller that are not source-mapped are stepped through
C33_StopsAtFirstMappedCallerCommand ==
    [][StepOutIteration =>
           /\ SingleSteps
           /\ jop' = JackIdle <=>
                  \/ state_' \in {"HALTED", "ERROR"}
                  \/ InCaller /\ AtMappedCommand
           /\ jop' = JackIdle => jlast'.name = "step_out" /\ jlast'.ret = state_']_vars

\* step_out, called in the callee, went through the unmapped command 3 of the
\* caller and returned at command 4
C33_SteppedOutPastUnmapped ==
    /\ JackIsIdle /\ jlast.name = "step_out" /\ jlast.ret = "PAUSED"
    /\ Program(program_).commands = JackStepOutVM
    /\ pc_ = 4 /\ Depth(Eng) = 1
    /\ jack_pause_reason_ = "STEP_COMPLETE"

-----------------------------------------------------------------------------
(* C35: the Jack-level pause reason after run and run_for                  *)

\* the step in which run() or run_for() of the debugger returns PAUSED
JackReturnsPaused(names) == jop.name \in names /\ jop' = JackIdle /\ state_ = "PAUSED"

\* the Jack-level reason is the engine's reason for this stop
ReasonIsTranslated ==
    /\ pause_reason_ = "BREAKPOINT" => jack_pause_reason_' = "BREAKPOINT"
    /\ pause_reason_ = "USER_REQUEST" => jack_pause_reason_' = "USER_REQUEST"

\* C35: whenever run() or run_for() of the debugger returns PAUSED, the
\* Jack-level pause reason is the translation of the engine's pause reason for
\* that stop (also when run_for used up its instruction limit), never a
\* reason left from an earlier operation
C35_PauseReasonTranslated ==
    [][JackReturnsPaused({"run", "run_for"}) => ReasonIsTranslated]_vars

\* what the code does guarantee: run() translates the reason of every stop,
\* run_for() that of a stop at a breakpoint
RunPauseReasonTranslated ==
    [][/\ JackReturnsPaused({"run"}) => ReasonIsTranslated
       /\ (JackReturnsPaused({"run_for"}) /\ pause_reason_ = "BREAKPOINT")
              => jack_pause_reason_' = "BREAKPOINT"]_vars

\* run() of the debugger has returned at a breakpoint
RunReturnedAtBreakpoint ==
    /\ JackIsIdle /\ jlast.name = "run" /\ jlast.ret = "PAUSED"
    /\ pause_reason_ = "BREAKPOINT" /\ jack_pause_reason_ = "BREAKPOINT"

-----------------------------------------------------------------------------
(* C36: segment accesses and the bounds of the RAM                         *)

\* base pointer + index of a command through local, argument, this or that
EffectiveAddress(m, cmd) ==
    cmd.index + CASE cmd.segment = "local" -> GetLCL(m)
                  [] cmd.segment = "argument" -> GetARG(m)
                  [] cmd.segment = "this" -> GetTHIS(m)
                  [] cmd.segment = "that" -> GetTHAT(m)

\* the command goes through a pointer to an address outside the RAM
OutsideRam(cmd) ==
    /\ cmd.segment \in {"local", "argument", "this", "that"}
    /\ ~InRam(EffectiveAddress(memory_, cmd))

\* C36: every push or pop through local, argument, this or that whose
\* effective address lies outside RAM 0..32767 raises a runtime error and puts
\* the engine in ERROR
C36_OutsideRamIsError ==
    [][\A cmd \in SegCommands, u \in UBWords :
           (SegExecute(cmd, u) /\ OutsideRam(cmd)) => state_' = "ERROR"]_vars

\* what the code does guarantee: the accesses through temp and pointer that do
\* not raise an error are inside the RAM
TempAndPointerInsideRam ==
    [][\A cmd \in SegCommands, u \in UBWords :
           (SegExecute(cmd, u) /\ cmd.segment \in {"temp", "pointer"} /\ state_' # "ERROR")
               => InRam(calculate_address(memory_, cmd.segment, cmd.index, "Main").v)]_vars

\* push this 1 has executed with THIS at 32767
PushedFromOutsideRam ==
    /\ engine = "vm" /\ state_ = "RUNNING" /\ GetTHIS(memory_) = 32767
    /\ stats_.pop_count = 1 /\ stats_.push_count = 2
    /\ GetSP(memory_) = STACK_BASE + 1

-----------------------------------------------------------------------------
(* HALTED is terminal.                                                      *)

\* a call of run, run_for, step, step_over or step_out of either engine
ExecutionCall == RunOrStepCall \/ VMStepOver \/ VMStepOut

\* C37: in state HALTED a call of run, run_for, step, step_over or step_out
\* returns HALTED and leaves the PC, the registers, the RAM, the call stack and
\* the counters as they were; only reset() or a load leaves HALTED.
C37_HaltedIsTerminal ==
    [][/\ state_ = "HALTED" /\ ExecutionCall =>
             /\ UNCHANGED <<memory_, a_register_, d_register_, pc_, state_, stats_>>
             /\ op' = Idle /\ last'.ret = "HALTED"
       /\ state_ = "HALTED" /\ state_' # "HALTED" =>
             last'.name \in {"reset", "load"}]_vars

\* a step_out called on a VM engine that halted at the return of its entry
\* function, with commands left at its PC, has returned
C37_CalledWhenHalted ==
    /\ engine = "vm" /\ IsIdle /\ state_ = "HALTED"
    /\ last.name = "step_out" /\ last.from = "HALTED" /\ last.ret = "HALTED"
    /\ pc_ < Len(Program(program_).commands)

\* a run called on a halted CPU engine has returned
CPUCalledWhenHalted ==
    /\ engine = "cpu" /\ IsIdle /\ state_ = "HALTED"
    /\ last.name = "run" /\ last.from = "HALTED" /\ last.ret = "HALTED"

-----------------------------------------------------------------------------
(* The state and the pause reason an operation leaves behind.               *)

\* a load, reset, run, run_for, step, step_over or step_out has returned
OperationReturned == IsIdle /\ last.name # "none"

\* C38: after a public operation of either engine has returned the state is
\* not RUNNING, and the pause reason is NONE exactly when the state is not
\* PAUSED.
C38_ReasonIffPaused ==
    OperationReturned =>
        /\ state_ # "RUNNING"
        /\ pause_reason_ = "NONE" <=> state_ # "PAUSED"

\* what holds instead: no operation returns RUNNING, PAUSED always carries a
\* reason, HALTED never does, and a reason stays on READY (after a load), or on
\* the ERROR of a VM engine whose initialize_execution failed after such a load
ReasonLeftOnlyByLoad ==
    OperationReturned =>
        /\ state_ # "RUNNING"
        /\ state_ = "PAUSED" => pause_reason_ # "NONE"
        /\ (state_ # "PAUSED" /\ pause_reason_ # "NONE") =>
              \/ state_ = "READY"
              \/ engine = "vm" /\ state_ = "ERROR" /\ stats_.instructions_executed = 0

\* a load on a paused engine has returned
LoadedWhenPaused ==
    /\ IsIdle /\ last.name = "load" /\ last.from = "PAUSED"
    /\ state_ = "READY" /\ pause_reason_ # "NONE"

\* a call stopped HALTED, or with a runtime error, and left the reason NONE
StoppedWithoutReason ==
    /\ IsIdle /\ last.name \in {"run", "step_over"} /\ state_ \in {"HALTED", "ERROR"}
    /\ pause_reason_ = "NONE" /\ stats_.instructions_executed > 0

-----------------------------------------------------------------------------
(* reset() as the recovery path of both engines.                            *)

\* the loop of CPUEngine::run with no pause requested
RECURSIVE CPURunToEnd(_, _)
CPURunToEnd(e, fuel) ==
    IF fuel = 0 \/ e.state_ # "RUNNING" THEN e
    ELSE LET r == CPUCore(e, FALSE)
         IN  IF r.ret THEN CPURunToEnd(r.e, fuel - 1) ELSE r.e

\* CPUEngine::run with no pause requested, cut after MaxInstr instructions
CPURunResult(e) ==
    IF CPUCanExecute(e) THEN CPURunToEnd(Started(e), MaxInstr) ELSE e

\* a CPU engine constructed and loaded with the instructions in the ROM
CPULoaded ==
    [Eng EXCEPT !.memory_ = load_rom(CPUMemoryReset, memory_.rom_),
                !.a_register_ = 0, !.d_register_ = 0, !.pc_ = 0, !.state_ = "READY",
                !.pause_reason_ = "NONE", !.pause_requested_ = FALSE,
                !.stats_ = CPUStatsReset, !.error_message_ = "", !.error_location_ = 0]

\* C39: reset() of either engine, called in any state, leaves the engine READY
\* with the program it had (same size, same instructions), and the run() that
\* follows gives what the first run() after loading that program gives.
C39_ResetKeepsProgram ==
    [][(VMReset \/ CPUReset) =>
          /\ state_' = "READY" /\ pc_' = 0
          /\ IF engine = "vm"
             THEN /\ program_' = program_
                  /\ RunResult(Eng') = RunResult(VMLoaded)
             ELSE /\ rom_size(memory_') = rom_size(memory_)
                  /\ memory_'.rom_ = memory_.rom_
                  /\ CPURunResult(Eng') = CPURunResult(CPULoaded)]_vars

\* what CPUEngine::reset does: the ROM is cleared with the RAM, and the run()
\* that follows halts at once
CPUResetClearsRom ==
    [][CPUReset =>
          /\ state_' = "READY" /\ pc_' = 0
          /\ rom_size(memory_') = 0 /\ memory_'.rom_ = <<>>
          /\ CPURunResult(Eng').state_ = "HALTED"
          /\ CPURunResult(Eng').stats_.instructions_executed = 0]_vars

\* reset() has been called on a CPU engine that had stopped with an error after
\* executing instructions of its program
CPUResetAfterError ==
    /\ engine = "cpu" /\ program_ # 0
    /\ last.name = "reset" /\ last.from = "ERROR"
    /\ state_ = "READY" /\ rom_size(memory_) = 0

-----------------------------------------------------------------------------
(* run_test_string without comparison data.                                 *)

\* what run_test_string gives when nothing is compared: the runner after the
\* script, and the state of the engine
WithoutComparison(tst) == run_all(Parsed(Tst), tst, <<>>)

\* C40: run_test_string called with empty comparison data compares nothing:
\* the output table and the state it returns are those of the script run on
\* the chips with no comparison lines, whatever comparison data an earlier
\* call supplied.
C40_EmptyCmpComparesNothing ==
    [][\A tst \in TstScripts :
          HDLRunTestString(tst, <<>>) =>
             /\ output_' = WithoutComparison(tst).t.output_
             /\ hdl_state_' = IF WithoutComparison(tst).threw # "" THEN "ERROR"
                              ELSE "HALTED"]_vars

\* what holds: run_test_string compares nothing when the runner holds no
\* comparison lines, and a call with empty comparison data leaves the lines
\* of the runner as they were
EmptyCmpKeepsLines ==
    [][\A tst \in TstScripts :
          HDLRunTestString(tst, <<>>) =>
             /\ compare_lines_' = compare_lines_
             /\ compare_lines_ = <<>> =>
                  /\ output_' = WithoutComparison(tst).t.output_
                  /\ comparison_error_' = <<>>
                  /\ hdl_state_' = IF WithoutComparison(tst).threw # "" THEN "ERROR"
                                   ELSE "HALTED"]_vars

\* a run_test_string with empty comparison data has returned ERROR with a
\* comparison failure against the lines of an earlier call
FailedOnEarlierData ==
    /\ tlast.name = "run_test_string" /\ ~tlast.cmp /\ tlast.threw = ""
    /\ hdl_state_ = "ERROR" /\ comparison_error_ # <<>>
    /\ compare_lines_ # <<>>

\* a run_test_string with empty comparison data on a runner without comparison
\* lines has run the whole script
RanWithoutLines ==
    /\ tlast.name = "run_test_string" /\ ~tlast.cmp
    /\ compare_lines_ = <<>> /\ hdl_state_ = "HALTED" /\ Len(output_) = 4

====
